---- MODULE Spec2Model ----
(***************************************************************************)
(* Retrieval and grounding engine of the motel phone-call assistant:       *)
(* the row index store (src/booking/index.py), the date resolver and       *)
(* tokenizer (src/booking/parsing.py) and the relevance search with its    *)
(* availability filter and summarizer (src/booking/search.py).             *)
(*                                                                         *)
(* Text values are TLA+ strings.  Where the code looks inside a string     *)
(* (ordering, digits, lower-casing, tokenizing) the model carries the      *)
(* string's code points or tokens in a table over the finite universe of   *)
(* strings the model draws its rows and queries from.                      *)
(***************************************************************************)
EXTENDS Integers, Sequences, FiniteSets, TLC

(***************************************************************************)
(* Bounds of the model.                                                    *)
(***************************************************************************)
\* longest dataset snapshot (data rows of the CSV file)
MaxRows == 2
\* number of file writes per run (modification times 1..MaxMtime)
MaxMtime == 2
\* rooms of one date in the formatter specification
MaxRooms == 5

(***************************************************************************)
(* Calendar: datetime.date as the code uses it.                            *)
(***************************************************************************)
Date(y, m, d) == [y |-> y, m |-> m, d |-> d]

\* Python's None where a date is expected
NoDate == Date(0, 0, 0)

IsLeap(y) == (y % 4 = 0) /\ ((y % 100 # 0) \/ (y % 400 = 0))

DaysInMonth(y, m) ==
    IF m \in {4, 6, 9, 11} THEN 30
    ELSE IF m = 2 THEN (IF IsLeap(y) THEN 29 ELSE 28)
    ELSE 31

\* date(y, m, d) raises ValueError unless this holds
ValidDate(y, m, d) ==
    /\ y \in 1..9999
    /\ m \in 1..12
    /\ d \in 1..DaysInMonth(y, m)

\* date + timedelta(days=1)
NextDay(dt) ==
    IF dt.d < DaysInMonth(dt.y, dt.m) THEN Date(dt.y, dt.m, dt.d + 1)
    ELSE IF dt.m < 12 THEN Date(dt.y, dt.m + 1, 1)
    ELSE Date(dt.y + 1, 1, 1)

RECURSIVE AddDays(_, _)
\* date + timedelta(days=n), n >= 0
AddDays(dt, n) == IF n = 0 THEN dt ELSE AddDays(NextDay(dt), n - 1)

RECURSIVE DaysBeforeYear(_)
\* days from 2024-01-01 to the first of January of year y (y >= 2024)
DaysBeforeYear(y) ==
    IF y <= 2024 THEN 0
    ELSE DaysBeforeYear(y - 1) + (IF IsLeap(y - 1) THEN 366 ELSE 365)

RECURSIVE DaysBeforeMonth(_, _)
DaysBeforeMonth(y, m) ==
    IF m <= 1 THEN 0 ELSE DaysBeforeMonth(y, m - 1) + DaysInMonth(y, m - 1)

\* date.weekday(): Monday is 0; 2024-01-01 was a Monday
Weekday(dt) == (DaysBeforeYear(dt.y) + DaysBeforeMonth(dt.y, dt.m) + dt.d - 1) % 7

(***************************************************************************)
(* Strings: decimal rendering, code points, ordering.                      *)
(***************************************************************************)
Digit == <<"0", "1", "2", "3", "4", "5", "6", "7", "8", "9">>

\* f"{n:02d}" for 0 <= n <= 99
Str2(n) == Digit[(n \div 10) + 1] \o Digit[(n % 10) + 1]

\* f"{n:04d}" for 0 <= n <= 9999
Str4(n) == Str2(n \div 100) \o Str2(n % 100)

\* str(n) for 0 <= n <= 99
StrNum(n) == IF n < 10 THEN Digit[n + 1] ELSE Str2(n)

\* the code points of the room-number strings of the model
Chars ==
    ("" :> <<>>) @@ ("5" :> <<53>>) @@ ("12" :> <<49, 50>>) @@
    ("7" :> <<55>>) @@ ("A1" :> <<65, 49>>) @@
    ("1" :> <<49>>) @@ ("2" :> <<50>>) @@ ("3" :> <<51>>)

RECURSIVE SeqLess(_, _)
\* Python's < on two strings, given as code-point sequences
SeqLess(a, b) ==
    IF b = <<>> THEN FALSE
    ELSE IF a = <<>> THEN TRUE
    ELSE IF a[1] # b[1] THEN a[1] < b[1]
    ELSE SeqLess(Tail(a), Tail(b))

StrLess(s, t) == SeqLess(Chars[s], Chars[t])

\* str.isdigit() on an ASCII string
IsDigitStr(s) == Chars[s] # <<>> /\ \A i \in 1..Len(Chars[s]) : Chars[s][i] \in 48..57

RECURSIVE IntOfSeq(_)
IntOfSeq(cs) ==
    IF cs = <<>> THEN 0 ELSE 10 * IntOfSeq(SubSeq(cs, 1, Len(cs) - 1)) + (cs[Len(cs)] - 48)

\* int(text) for a string of digits
IntOfStr(s) == IntOfSeq(Chars[s])

(***************************************************************************)
(* Dataset rows.  A row is the mapping the CSV reader yields, here with    *)
(* the four columns the search looks at; the others are absent and render  *)
(* as the empty string.  The date column is the text "YYYY-MM-DD" of the   *)
(* three numbers it holds (NoDate: an empty cell).                         *)
(***************************************************************************)
Row(dt, num, typ, st) == [date |-> dt, room_number |-> num, room_type |-> typ, status |-> st]

RowPool ==
    { Row(Date(2025, 6, 10), "12", "Queen", "Available"),
      Row(Date(2025, 6, 10), "5", "Twin", "occupied"),
      Row(Date(2024, 6, 10), "A1", "Queen", "vacant"),
      Row(Date(1999, 6, 10), "7", "", "Available"),
      Row(Date(2025, 2, 30), "", "Twin", "Available") }

RECURSIVE SeqsUpTo(_, _)
\* the sequences over S of length at most n
SeqsUpTo(S, n) ==
    IF n = 0 THEN {<<>>}
    ELSE LET shorter == SeqsUpTo(S, n - 1)
         IN  shorter \cup {Append(s, x) : s \in {t \in shorter : Len(t) = n - 1}, x \in S}

\* the dataset snapshots a file can hold: no row is written twice
Snapshots ==
    {rows \in SeqsUpTo(RowPool, MaxRows) :
        \A i, j \in 1..Len(rows) : rows[i] = rows[j] => i = j}

(***************************************************************************)
(* Tokenizer (parsing.py).  _tokenize lower-cases and splits on            *)
(* non-alphanumerics; the table gives its result on the words of the       *)
(* model.                                                                  *)
(***************************************************************************)
TokenTable ==
    ("" :> <<>>) @@
    ("Queen" :> <<"queen">>) @@ ("Twin" :> <<"twin">>) @@
    ("Available" :> <<"available">>) @@ ("occupied" :> <<"occupied">>) @@
    ("vacant" :> <<"vacant">>) @@
    ("5" :> <<"5">>) @@ ("12" :> <<"12">>) @@ ("7" :> <<"7">>) @@ ("A1" :> <<"a1">>)

_tokenize(text) == TokenTable[text]

SeqToSet(s) == {s[i] : i \in 1..Len(s)}

_STOPWORDS ==
    { "a", "an", "and", "are", "at", "be", "can", "do", "for", "have", "i", "in",
      "is", "it", "me", "of", "on", "or", "our", "please", "the", "to", "us", "we",
      "with", "you", "your" }

\* the tokens of the field names of _format_row_text, present in every row text
FieldNameTokens ==
    { "date", "room", "number", "type", "status", "booking", "id", "guest", "name",
      "check", "in", "out", "channel", "nightly", "rate", "nzd", "notes", "floor",
      "bed", "setup", "max", "guests", "size", "sqm", "kitchenette", "amenities",
      "view", "accessible", "description", "source", "pricing", "reason" }

\* the tokens of the date cell "YYYY-MM-DD"
DateCellTokens(dt) == IF dt = NoDate THEN {} ELSE {Str4(dt.y), Str2(dt.m), Str2(dt.d)}

\* set(_tokenize(row_text)) for the row text _format_row_text builds
RowTokens(row) ==
    FieldNameTokens \cup DateCellTokens(row.date)
        \cup SeqToSet(_tokenize(row.room_number))
        \cup SeqToSet(_tokenize(row.room_type))
        \cup SeqToSet(_tokenize(row.status))

\* date.fromisoformat on the date cell; None for an empty cell or a ValueError
_parse_date_str(value) ==
    IF value = NoDate THEN NoDate
    ELSE IF ValidDate(value.y, value.m, value.d) THEN Date(value.y, value.m, value.d)
    ELSE NoDate

(***************************************************************************)
(* Queries.  A caller utterance is the text made of the phrases it         *)
(* contains, one field per pattern category of the date resolver:          *)
(*   iso    "Y-M-D" as written (NoDate: none),                             *)
(*   rel    "today", "tomorrow" or "day after tomorrow" ("": none),        *)
(*   md     a day with a month name and perhaps a year (NoMD: none),       *)
(*   wd     a weekday name with perhaps "next" or "this" (NoWD: none),     *)
(*   words  the other words of the utterance.                              *)
(* The utterance of all fields empty is the blank text.                    *)
(***************************************************************************)
NoMD == [day |-> 0, month |-> "", year |-> 0]

NoWD == [qualifier |-> "", weekday |-> ""]

Query(iso, rel, md, wd, words) ==
    [iso |-> iso, rel |-> rel, md |-> md, wd |-> wd, words |-> words]

MonthDay(day, month, year) == [day |-> day, month |-> month, year |-> year]

BlankQuery == Query(NoDate, "", NoMD, NoWD, {})

\* query.strip() is empty
IsBlank(q) == q = BlankQuery

\* set(_tokenize(query))
QueryTextTokens(q) ==
    (IF q.iso = NoDate THEN {} ELSE {Str4(q.iso.y), Str2(q.iso.m), Str2(q.iso.d)})
    \cup (IF q.rel = "day after tomorrow" THEN {"day", "after", "tomorrow"}
          ELSE IF q.rel = "today or tomorrow" THEN {"today", "or", "tomorrow"}
          ELSE IF q.rel = "" THEN {} ELSE {q.rel})
    \cup (IF q.md = NoMD THEN {}
          ELSE {StrNum(q.md.day), q.md.month}
               \cup (IF q.md.year = 0 THEN {} ELSE {Str4(q.md.year)}))
    \cup ({q.wd.qualifier, q.wd.weekday} \ {""})
    \cup q.words

_query_tokens(q) == QueryTextTokens(q) \ _STOPWORDS

\* _normalize_date with the month and day groups taken in the wrong order
_normalize_date_swapped(q) ==
    IF /\ q.iso # NoDate
       /\ q.iso.y \in 2000..2099
       /\ q.iso.m \in 0..99
       /\ q.iso.d \in 0..99
    THEN Date(q.iso.y, q.iso.d, q.iso.m)
    ELSE NoDate

\* _DATE_RE finds "20dd-d{1,2}-d{1,2}" in the text; the three numbers are
\* rendered again as "%04d-%02d-%02d" (NoDate: no match)
_normalize_date(q) ==
    IF /\ q.iso # NoDate
       /\ q.iso.y \in 2000..2099
       /\ q.iso.m \in 0..99
       /\ q.iso.d \in 0..99
    THEN Date(q.iso.y, q.iso.m, q.iso.d)
    ELSE NoDate

_MONTHS ==
    ("jan" :> 1) @@ ("january" :> 1) @@ ("feb" :> 2) @@ ("february" :> 2) @@
    ("mar" :> 3) @@ ("march" :> 3) @@ ("apr" :> 4) @@ ("april" :> 4) @@
    ("may" :> 5) @@ ("jun" :> 6) @@ ("june" :> 6) @@ ("jul" :> 7) @@ ("july" :> 7) @@
    ("aug" :> 8) @@ ("august" :> 8) @@ ("sep" :> 9) @@ ("sept" :> 9) @@
    ("september" :> 9) @@ ("oct" :> 10) @@ ("october" :> 10) @@ ("nov" :> 11) @@
    ("november" :> 11) @@ ("dec" :> 12) @@ ("december" :> 12)

\* month_token[:3] for the month names of the model's queries
Prefix3 ==
    ("feb" :> "feb") @@ ("february" :> "feb") @@ ("jun" :> "jun") @@
    ("june" :> "jun") @@ ("sept" :> "sep") @@ ("dec" :> "dec") @@ ("december" :> "dec")

\* _MONTHS.get(month_token[:3], _MONTHS.get(month_token, 0))
MonthNumber(token) ==
    IF Prefix3[token] \in DOMAIN _MONTHS THEN _MONTHS[Prefix3[token]]
    ELSE IF token \in DOMAIN _MONTHS THEN _MONTHS[token]
    ELSE 0

_WEEKDAYS ==
    ("monday" :> 0) @@ ("tuesday" :> 1) @@ ("wednesday" :> 2) @@ ("thursday" :> 3) @@
    ("friday" :> 4) @@ ("saturday" :> 5) @@ ("sunday" :> 6)

\* lines 153-155 without the step to the following week
DaysAhead_sameWeek(qualifier, weekday, now) == (weekday - Weekday(now)) % 7

\* lines 153-155: the days from today to the weekday; "next" on that very
\* weekday is a week ahead
DaysAhead(qualifier, weekday, now) ==
    LET days_ahead == (weekday - Weekday(now)) % 7
    IN  IF qualifier = "next" /\ days_ahead = 0 THEN 7 ELSE days_ahead

\* the result pair of _resolve_query_date
Resolved(dt, explicit) == [date |-> dt, is_explicit_year |-> explicit]

\* the relative phrases that are substrings of the lowered text (lines
\* 130-135 test `phrase in lowered`): "day after tomorrow" holds "tomorrow"
RelPhrases(rel) ==
    IF rel = "day after tomorrow" THEN {"day after tomorrow", "tomorrow"}
    ELSE IF rel = "today or tomorrow" THEN {"today", "tomorrow"}
    ELSE IF rel = "" THEN {}
    ELSE {rel}

\* _resolve_query_date that goes on to the weekday pattern when the day and
\* month-name phrase names no calendar date
_resolve_query_date_backtracking(q, now) ==
    IF IsBlank(q) THEN Resolved(NoDate, FALSE)
    ELSE IF _normalize_date(q) # NoDate
    THEN Resolved(_parse_date_str(_normalize_date(q)), TRUE)
    ELSE IF "day after tomorrow" \in RelPhrases(q.rel) THEN Resolved(AddDays(now, 2), FALSE)
    ELSE IF "tomorrow" \in RelPhrases(q.rel) THEN Resolved(AddDays(now, 1), FALSE)
    ELSE IF "today" \in RelPhrases(q.rel) THEN Resolved(now, FALSE)
    ELSE IF /\ q.md # NoMD
            /\ ValidDate(IF q.md.year # 0 THEN q.md.year ELSE now.y,
                         MonthNumber(q.md.month), q.md.day)
    THEN Resolved(Date(IF q.md.year # 0 THEN q.md.year ELSE now.y,
                       MonthNumber(q.md.month), q.md.day), q.md.year # 0)
    ELSE IF q.wd # NoWD
    THEN Resolved(AddDays(now, DaysAhead(q.wd.qualifier, _WEEKDAYS[q.wd.weekday], now)), FALSE)
    ELSE Resolved(NoDate, FALSE)

\* _resolve_query_date(text) when date.today() is now
_resolve_query_date(q, now) ==
    IF IsBlank(q) THEN Resolved(NoDate, FALSE)
    ELSE IF _normalize_date(q) # NoDate
    THEN Resolved(_parse_date_str(_normalize_date(q)), TRUE)
    ELSE IF "day after tomorrow" \in RelPhrases(q.rel) THEN Resolved(AddDays(now, 2), FALSE)
    ELSE IF "tomorrow" \in RelPhrases(q.rel) THEN Resolved(AddDays(now, 1), FALSE)
    ELSE IF "today" \in RelPhrases(q.rel) THEN Resolved(now, FALSE)
    ELSE IF q.md # NoMD
    THEN LET month == MonthNumber(q.md.month)
             year == IF q.md.year # 0 THEN q.md.year ELSE now.y
         IN  IF ValidDate(year, month, q.md.day)
             THEN Resolved(Date(year, month, q.md.day), q.md.year # 0)
             ELSE Resolved(NoDate, FALSE)
    ELSE IF q.wd # NoWD
    THEN LET weekday == _WEEKDAYS[q.wd.weekday]
             days_ahead == DaysAhead(q.wd.qualifier, weekday, now)
         IN  Resolved(AddDays(now, days_ahead), FALSE)
    ELSE Resolved(NoDate, FALSE)

(***************************************************************************)
(* Availability filter and summarizer (search.py).                         *)
(***************************************************************************)
\* str.lower() on the status strings of the model
LowerTable ==
    ("" :> "") @@ ("Available" :> "available") @@ ("occupied" :> "occupied") @@
    ("vacant" :> "vacant")

_normalize_status(value) == LowerTable[value]

\* status.startswith("available") on the lower-cased statuses of the model
StartsWithAvailable(status) == status \in {"available"}

_is_available(row) ==
    LET status == _normalize_status(row.status)
    IN  status \in {"available", "vacant"} \/ StartsWithAvailable(status)

\* " ".join(_tokenize(value)): the token sequence stands for the joined string
_normalize_room_type(value) == _tokenize(value)

RECURSIVE SumLen(_)
SumLen(tokens) == IF tokens = <<>> THEN 0 ELSE Len(Head(tokens)) + SumLen(Tail(tokens))

\* len(normalized) of the joined string
NormalizedLen(tokens) == IF tokens = <<>> THEN 0 ELSE SumLen(tokens) + Len(tokens) - 1

\* Python's order on the room-type strings of the model
TypeRank == ("" :> 0) @@ ("Queen" :> 1) @@ ("Twin" :> 2)

\* room_types.setdefault(normalized, room_type): the first spelling of each
\* normalized room type, in row order
FirstSpelling(rows, normalized) ==
    LET hits == {i \in 1..Len(rows) : _normalize_room_type(rows[i].room_type) = normalized}
        first == CHOOSE i \in hits : \A j \in hits : i <= j
    IN  rows[first].room_type

\* the tuple order of candidates.sort(reverse=True), on (token count, length, spelling)
CandidateLess(a, b) ==
    \/ Len(a.tokens) < Len(b.tokens)
    \/ /\ Len(a.tokens) = Len(b.tokens)
       /\ NormalizedLen(a.tokens) < NormalizedLen(b.tokens)
    \/ /\ Len(a.tokens) = Len(b.tokens)
       /\ NormalizedLen(a.tokens) = NormalizedLen(b.tokens)
       /\ TypeRank[a.original] < TypeRank[b.original]

\* _detect_room_type(query, rows); "" is None
_detect_room_type(q, rows) ==
    LET query_tokens == QueryTextTokens(q)
        norms == {_normalize_room_type(rows[i].room_type) : i \in 1..Len(rows)} \ {<<>>}
        candidates == {[tokens |-> n, original |-> FirstSpelling(rows, n)] :
                          n \in {m \in norms : SeqToSet(m) \subseteq query_tokens}}
    IN  IF query_tokens = {} \/ candidates = {} THEN ""
        ELSE (CHOOSE c \in candidates :
                \A other \in candidates \ {c} : CandidateLess(other, c)).original

\* _filter_rows giving the rows back unfiltered when no row passes
_filter_rows_relaxed(rows, availability_only, room_type_filter) ==
    LET filtered == IF availability_only THEN SelectSeq(rows, _is_available) ELSE rows
        normalized_filter == _normalize_room_type(room_type_filter)
        SameType(row) == _normalize_room_type(row.room_type) = normalized_filter
        passing == IF room_type_filter # "" /\ normalized_filter # <<>>
                   THEN SelectSeq(filtered, SameType)
                   ELSE filtered
    IN  IF passing = <<>> THEN rows ELSE passing

_filter_rows(rows, availability_only, room_type_filter) ==
    LET filtered == IF availability_only THEN SelectSeq(rows, _is_available) ELSE rows
        normalized_filter == _normalize_room_type(room_type_filter)
        SameType(row) == _normalize_room_type(row.room_type) = normalized_filter
    IN  IF room_type_filter # "" /\ normalized_filter # <<>>
        THEN SelectSeq(filtered, SameType)
        ELSE filtered

\* the order of the sort keys of _sort_room_number: (0, int(text)) for digits,
\* else (1, text)
_sort_room_number(s, t) ==
    IF IsDigitStr(s) /\ IsDigitStr(t) THEN IntOfStr(s) < IntOfStr(t)
    ELSE IF IsDigitStr(s) THEN TRUE
    ELSE IF IsDigitStr(t) THEN FALSE
    ELSE StrLess(s, t)

RECURSIVE SortedNumbers(_)
\* sorted(set_of_room_numbers, key=_sort_room_number)
SortedNumbers(S) ==
    IF S = {} THEN <<>>
    ELSE LET least == CHOOSE x \in S : \A y \in S \ {x} : _sort_room_number(x, y)
         IN  <<least>> \o SortedNumbers(S \ {least})

\* the date label of the summary: isoformat() or "%b" and the day; "" is None
MonthAbbr == <<"Jan", "Feb", "Mar", "Apr", "May", "Jun", "Jul", "Aug", "Sep", "Oct", "Nov", "Dec">>

DateLabel(query_date, is_explicit_year) ==
    IF query_date = NoDate THEN ""
    ELSE IF is_explicit_year
    THEN Str4(query_date.y) \o "-" \o Str2(query_date.m) \o "-" \o Str2(query_date.d)
    ELSE MonthAbbr[query_date.m] \o " " \o StrNum(query_date.d)

\* the room type a row is counted under
CountedType(row) == IF row.room_type = "" THEN "Unknown" ELSE row.room_type

\* _summarize_rows leaving the rows of blank room type out of the counts
_summarize_rows_skipBlankTypes(rows, query_date, is_explicit_year, availability_only, room_type_filter, summary_complete) ==
    [ total |-> Len(rows),
      room_type_counts |->
          [t \in {rows[i].room_type : i \in 1..Len(rows)} \ {""} |->
              Cardinality({i \in 1..Len(rows) : rows[i].room_type = t})],
      room_numbers |-> SortedNumbers({rows[i].room_number : i \in 1..Len(rows)} \ {""}),
      date_label |-> DateLabel(query_date, is_explicit_year),
      availability_only |-> availability_only,
      room_type_filter |-> room_type_filter,
      summary_complete |-> summary_complete ]

\* _summarize_rows(rows, ...): the counts per room type, the sorted room
\* numbers and the labels of a summary
_summarize_rows(rows, query_date, is_explicit_year, availability_only, room_type_filter, summary_complete) ==
    [ total |-> Len(rows),
      room_type_counts |->
          [t \in {CountedType(rows[i]) : i \in 1..Len(rows)} |->
              Cardinality({i \in 1..Len(rows) : CountedType(rows[i]) = t})],
      room_numbers |-> SortedNumbers({rows[i].room_number : i \in 1..Len(rows)} \ {""}),
      date_label |-> DateLabel(query_date, is_explicit_year),
      availability_only |-> availability_only,
      room_type_filter |-> room_type_filter,
      summary_complete |-> summary_complete ]

\* no summary (None)
NoSummary ==
    [ total |-> -1, room_type_counts |-> <<>>, room_numbers |-> <<>>, date_label |-> "",
      availability_only |-> FALSE, room_type_filter |-> "", summary_complete |-> FALSE ]

(***************************************************************************)
(* Row index store (index.py).  booking_vectors is the table in rowid      *)
(* order; booking_meta holds the three staleness keys ("" and 0: the key   *)
(* is absent).  built_from is a history field: the modification time of    *)
(* the snapshot a stored row was built from.                               *)
(***************************************************************************)
Paths == {"a.csv", "b.csv"}

Models == {"text-embedding-3-small", "text-embedding-3-large"}

\* the vectors the embedding service answers with for row texts
EmbVecs == {<<1, 0>>, <<0, 1>>}

\* the vectors the embedding service answers with for queries
QueryVecs == {<<1, 0>>}

NoMeta == [csv_path |-> "", csv_mtime |-> 0, embed_model |-> ""]

NoFile == [exists |-> FALSE, mtime |-> 0, rows |-> <<>>]

File(mtime, rows) == [exists |-> TRUE, mtime |-> mtime, rows |-> rows]

\* requests per rebuild batch
batch_size == 100

\* SELECT COUNT(*) FROM booking_vectors WHERE csv_path = ?
RowCount(vectors, csv_path) ==
    Cardinality({i \in 1..Len(vectors) : vectors[i].csv_path = csv_path})

\* the DELETE without its WHERE clause
DeleteVectors_everyPath(vectors, csv_path) == <<>>

\* DELETE FROM booking_vectors WHERE csv_path = ?
DeleteVectors(vectors, csv_path) ==
    LET Other(v) == v.csv_path # csv_path
    IN  SelectSeq(vectors, Other)

\* the to_insert list of _rebuild_index, inserted by one executemany
\* (built_from records the mtime of the snapshot the rows were read from; the
\* table has no such column and nothing in the program reads it)
InsertVectors(vectors, csv_path, rows, embeddings, mtime) ==
    vectors \o [i \in 1..Len(rows) |->
                  [csv_path |-> csv_path, row_index |-> i - 1, row |-> rows[i],
                   embedding |-> embeddings[i], built_from |-> mtime]]

\* lines 197-199 with the model id left out
SetMeta_noModel(csv_path, mtime, model) ==
    [csv_path |-> csv_path, csv_mtime |-> mtime, embed_model |-> ""]

\* the three _set_meta calls after a rebuild
SetMeta(csv_path, mtime, model) ==
    [csv_path |-> csv_path, csv_mtime |-> mtime, embed_model |-> model]

\* the staleness test without the comparison of the stored path
IsCurrent_anyPath(vectors, meta, csv_path, mtime, model) ==
    /\ meta.csv_mtime = mtime
    /\ meta.embed_model = model
    /\ RowCount(vectors, csv_path) > 0

\* the staleness test of _ensure_index: true when the index is kept
IsCurrent(vectors, meta, csv_path, mtime, model) ==
    /\ meta.csv_path = csv_path
    /\ meta.csv_mtime = mtime
    /\ meta.embed_model = model
    /\ RowCount(vectors, csv_path) > 0

\* the number of _embed_texts requests for n rows
BatchCount(n) == (n + batch_size - 1) \div batch_size

\* the shapes of the row table in a store file: never created, created by a
\* prior version without the row_text column, or as _init_db creates it
Schemas == {"none", "prior", "current"}

\* the store as a connection finds it
Store(shape, vectors) == [schema |-> shape, vectors |-> vectors]

\* _init_db(conn): the tables are created if they are absent; a row table
\* without the row_text column is dropped, with the rows of every path, and
\* created anew
_init_db(shape, vectors) ==
    Store("current", IF shape = "prior" THEN <<>> ELSE vectors)

\* lines 164-175 of _ensure_index: the store is opened and initialised only
\* when the dataset file exists and its modification time can be read
Opened(shape, vectors, file) ==
    IF file.exists THEN _init_db(shape, vectors) ELSE Store(shape, vectors)

\* the outcome of an _ensure_index call, as a store it leaves
Ensured(vectors, meta, outcome, calls) ==
    [vectors |-> vectors, meta |-> meta, outcome |-> outcome, calls |-> calls]

\* _rebuild_index failing before its DELETE
AfterFailure_keepsRows(vectors, meta, csv_path, mtime, model) ==
    Ensured(vectors, meta, "failed", 1)

\* _ensure_index going on to its _set_meta calls after a failed rebuild
AfterFailure_setsMeta(vectors, meta, csv_path, mtime, model) ==
    Ensured(DeleteVectors(vectors, csv_path), SetMeta(csv_path, mtime, model), "failed", 1)

\* lines 193-196: _rebuild_index raised OpenAIError after its DELETE was
\* committed and before anything was inserted; _ensure_index returns
AfterFailure(vectors, meta, csv_path, mtime, model) ==
    Ensured(DeleteVectors(vectors, csv_path), meta, "failed", 1)

\* _ensure_index clearing the stored rows of a path whose snapshot has no
\* data row
_ensure_index_clearsEmpty(vectors, meta, file, csv_path, model, service_ok, embeddings) ==
    IF ~file.exists THEN Ensured(vectors, meta, "no_file", 0)
    ELSE IF IsCurrent(vectors, meta, csv_path, file.mtime, model)
    THEN Ensured(vectors, meta, "current", 0)
    ELSE IF file.rows = <<>> THEN Ensured(DeleteVectors(vectors, csv_path), meta, "no_rows", 0)
    ELSE IF ~service_ok
    THEN AfterFailure(vectors, meta, csv_path, file.mtime, model)
    ELSE Ensured(InsertVectors(DeleteVectors(vectors, csv_path), csv_path, file.rows,
                               embeddings, file.mtime),
                 SetMeta(csv_path, file.mtime, model), "rebuilt",
                 BatchCount(Len(file.rows)))

\* _ensure_index(csv_path, db_path) run to its end by one process; service_ok
\* tells whether the embedding requests succeed and embeddings are the
\* vectors they answer with
_ensure_index(vectors, meta, file, csv_path, model, service_ok, embeddings) ==
    IF ~file.exists THEN Ensured(vectors, meta, "no_file", 0)
    ELSE IF IsCurrent(vectors, meta, csv_path, file.mtime, model)
    THEN Ensured(vectors, meta, "current", 0)
    ELSE IF file.rows = <<>> THEN Ensured(vectors, meta, "no_rows", 0)
    ELSE IF ~service_ok
    THEN AfterFailure(vectors, meta, csv_path, file.mtime, model)
    ELSE Ensured(InsertVectors(DeleteVectors(vectors, csv_path), csv_path, file.rows,
                               embeddings, file.mtime),
                 SetMeta(csv_path, file.mtime, model), "rebuilt",
                 BatchCount(Len(file.rows)))

(***************************************************************************)
(* Relevance search (search.py).                                           *)
(***************************************************************************)
\* an exact square root, for the norms of the model's vectors
Sqrt(n) == CHOOSE r \in 0..n : r * r = n

Dot(a, b) == IF a = <<>> \/ b = <<>> THEN 0 ELSE a[1] * b[1] + a[2] * b[2]

\* _cosine_similarity as the fraction num / den, den > 0
_cosine_similarity(vec_a, vec_b) ==
    LET norm_a == Sqrt(Dot(vec_a, vec_a))
        norm_b == Sqrt(Dot(vec_b, vec_b))
    IN  IF norm_a = 0 \/ norm_b = 0 THEN [num |-> 0, den |-> 1]
        ELSE [num |-> Dot(vec_a, vec_b), den |-> norm_a * norm_b]

ScoreLess(x, y) == x.num * y.den < y.num * x.den

\* _load_index_rows(conn, csv_path)
_load_index_rows(vectors, csv_path) ==
    LET Mine(v) == v.csv_path = csv_path
        mine == SelectSeq(vectors, Mine)
    IN  [i \in 1..Len(mine) |->
            [row |-> mine[i].row, embedding |-> mine[i].embedding,
             tokens |-> RowTokens(mine[i].row),
             row_date |-> _parse_date_str(mine[i].row.date)]]

Front(s) == SubSeq(s, 1, Len(s) - 1)

Last(s) == s[Len(s)]

\* the key order of items.sort(key=lambda item: item["row"].get("room_number", ""))
RoomKeyLess(x, y) == StrLess(x.row.room_number, y.row.room_number)

RECURSIVE InsertByRoom(_, _)
InsertByRoom(sorted, x) ==
    IF sorted = <<>> THEN <<x>>
    ELSE IF RoomKeyLess(x, Last(sorted))
    THEN Append(InsertByRoom(Front(sorted), x), Last(sorted))
    ELSE Append(sorted, x)

RECURSIVE SortByRoom(_)
\* list.sort by the room-number key: stable
SortByRoom(items) ==
    IF items = <<>> THEN <<>> ELSE InsertByRoom(SortByRoom(Front(items)), Last(items))

RECURSIVE InsertByScore(_, _)
InsertByScore(sorted, x) ==
    IF sorted = <<>> THEN <<x>>
    ELSE IF ScoreLess(Last(sorted).score, x.score)
    THEN Append(InsertByScore(Front(sorted), x), Last(sorted))
    ELSE Append(sorted, x)

RECURSIVE SortByScore_fromEnd(_)
\* a descending sort that takes the items from the last to the first, so that
\* items of equal score come out in reverse order
SortByScore_fromEnd(scored) ==
    IF scored = <<>> THEN <<>> ELSE InsertByScore(SortByScore_fromEnd(Tail(scored)), Head(scored))

RECURSIVE SortByScore(_)
\* scored.sort(key=lambda item: item[0], reverse=True): stable, descending
SortByScore(scored) ==
    IF scored = <<>> THEN <<>> ELSE InsertByScore(SortByScore(Front(scored)), Last(scored))

RowsOf(items) == [i \in 1..Len(items) |-> items[i].row]

\* rows[:max_rows]
Limit(rows, max_rows) == SubSeq(rows, 1, IF Len(rows) < max_rows THEN Len(rows) ELSE max_rows)

\* what find_relevant_rows returns, the return statement it left by (path),
\* the query-embedding requests it made and the cache it leaves
Found(rows, summary, has_summary, path, calls, cache) ==
    [rows |-> rows, summary |-> summary, has_summary |-> has_summary, path |-> path,
     calls |-> calls, cache |-> cache]

\* the date match cutting the sorted rows to max_rows before it filters them
DateMatch_limitFirst(items, q, resolved, is_explicit_year, max_rows, include_summary, availability_only, room_type_filter, path, cache) ==
    LET all_rows == Limit(RowsOf(SortByRoom(items)), max_rows)
        filtered_rows == _filter_rows(all_rows, availability_only, room_type_filter)
        summary == _summarize_rows(filtered_rows, resolved.date, is_explicit_year,
                                   availability_only, room_type_filter, TRUE)
    IN  Found(filtered_rows,
              IF include_summary THEN summary ELSE NoSummary, include_summary,
              path, 0, cache)

\* lines 162-179 and 188-205: the rows of a date match, sorted, filtered,
\* summarized and limited
DateMatch(items, q, resolved, is_explicit_year, max_rows, include_summary, availability_only, room_type_filter, path, cache) ==
    LET all_rows == RowsOf(SortByRoom(items))
        filtered_rows == _filter_rows(all_rows, availability_only, room_type_filter)
        summary == _summarize_rows(filtered_rows, resolved.date, is_explicit_year,
                                   availability_only, room_type_filter, TRUE)
    IN  Found(Limit(filtered_rows, max_rows),
              IF include_summary THEN summary ELSE NoSummary, include_summary,
              path, 0, cache)

\* the lexical filter without its fallback to all rows
LexicalCandidates_noFallback(items, query_tokens) ==
    LET Overlaps(item) == item.tokens \cap query_tokens # {}
    IN  IF query_tokens # {} THEN SelectSeq(items, Overlaps) ELSE items

\* lines 207-211: the rows sharing a token with the query, or all rows when
\* the query has no token or no row shares one
LexicalCandidates(items, query_tokens) ==
    LET Overlaps(item) == item.tokens \cap query_tokens # {}
        filtered == SelectSeq(items, Overlaps)
    IN  IF query_tokens # {} /\ filtered # <<>> THEN filtered ELSE items

\* the ranking path marking its summary complete
SemanticSummary_complete(filtered_rows, availability_only, room_type_filter) ==
    _summarize_rows(filtered_rows, NoDate, FALSE, availability_only, room_type_filter, TRUE)

\* lines 227-236: the summary of the ranking path
SemanticSummary(filtered_rows, availability_only, room_type_filter) ==
    _summarize_rows(filtered_rows, NoDate, FALSE, availability_only, room_type_filter, FALSE)

\* lru_cache(maxsize=128) of _embed_query_cached
maxsize == 128

\* the key of a cache entry: the arguments (model, query) of _embed_query_cached
CacheKey(model, q) == [model |-> model, query |-> q]

\* the position of the entry of a key in the cache, 0 when it has none
CachePos(cache, key) ==
    IF \E i \in 1..Len(cache) : cache[i].key = key
    THEN CHOOSE i \in 1..Len(cache) : cache[i].key = key
    ELSE 0

\* a hit: the entry becomes the most recently used
CacheTouch(cache, pos) ==
    SubSeq(cache, 1, pos - 1) \o SubSeq(cache, pos + 1, Len(cache)) \o <<cache[pos]>>

\* a cache that keeps the result of every call
CachePut_unbounded(cache, key, embedding) ==
    Append(cache, [key |-> key, embedding |-> embedding])

\* a miss whose call returned: the result is kept, and when the cache is full
\* the least recently used entry is dropped
CachePut(cache, key, embedding) ==
    LET entry == [key |-> key, embedding |-> embedding]
    IN  IF Len(cache) >= maxsize THEN Append(Tail(cache), entry) ELSE Append(cache, entry)

\* lines 206-237: lexical filter, query embedding, cosine ranking
SemanticMatch(items, q, model, max_rows, include_summary, availability_only, room_type_filter, cache, query_ok, query_vec) ==
    LET candidates == LexicalCandidates(items, _query_tokens(q))
        pos == CachePos(cache, CacheKey(model, q))
        hit == pos # 0
    IN  IF ~hit /\ ~query_ok
        THEN Found(<<>>, NoSummary, FALSE, "error", 1, cache)
        ELSE LET query_embedding == IF hit THEN cache[pos].embedding ELSE query_vec
                 scored == [i \in 1..Len(candidates) |->
                               [score |-> _cosine_similarity(query_embedding,
                                                             candidates[i].embedding),
                                row |-> candidates[i].row]]
                 all_rows == RowsOf(SortByScore(scored))
                 filtered_rows == _filter_rows(all_rows, availability_only, room_type_filter)
                 summary == SemanticSummary(filtered_rows, availability_only,
                                            room_type_filter)
             IN  Found(Limit(filtered_rows, max_rows),
                       IF include_summary THEN summary ELSE NoSummary, include_summary,
                       "semantic", IF hit THEN 0 ELSE 1,
                       IF hit THEN CacheTouch(cache, pos)
                       ELSE CachePut(cache, CacheKey(model, q), query_vec))

\* the month/day retry comparing the year as well
SameMonthDay_sameYear(row_date, query_date) ==
    /\ row_date # NoDate
    /\ row_date = query_date

\* lines 184-186: month and day equal, whatever the year
SameMonthDay(row_date, query_date) ==
    /\ row_date # NoDate
    /\ row_date.m = query_date.m
    /\ row_date.d = query_date.d

\* find_relevant_rows asking for the query embedding before it matches dates
find_relevant_rows_embedFirst(q, csv_path, max_rows, include_summary, availability_only, api_key, vectors, now, model, cache, query_ok, query_vec) ==
    LET items == _load_index_rows(vectors, csv_path)
        resolved == _resolve_query_date(q, now)
        room_type_filter == _detect_room_type(q, RowsOf(items))
        OnDate(item) == item.row_date = resolved.date
        date_rows == SelectSeq(items, OnDate)
        OnMonthDay(item) == SameMonthDay(item.row_date, resolved.date)
        month_day_rows == SelectSeq(items, OnMonthDay)
    IN  IF ~api_key THEN Found(<<>>, NoSummary, FALSE, "no_key", 0, cache)
        ELSE IF items = <<>> THEN Found(<<>>, NoSummary, FALSE, "no_rows", 0, cache)
        ELSE IF IsBlank(q) THEN Found(<<>>, NoSummary, FALSE, "blank", 0, cache)
        ELSE IF ~query_ok THEN Found(<<>>, NoSummary, FALSE, "error", 1, cache)
        ELSE IF resolved.date # NoDate /\ date_rows # <<>>
        THEN DateMatch(date_rows, q, resolved, resolved.is_explicit_year, max_rows,
                       include_summary, availability_only, room_type_filter,
                       "exact_date", cache)
        ELSE IF /\ resolved.date # NoDate
                /\ ~resolved.is_explicit_year
                /\ month_day_rows # <<>>
        THEN DateMatch(month_day_rows, q, resolved, FALSE, max_rows,
                       include_summary, availability_only, room_type_filter,
                       "month_day", cache)
        ELSE SemanticMatch(items, q, model, max_rows, include_summary, availability_only,
                           room_type_filter, cache, query_ok, query_vec)

\* find_relevant_rows after _ensure_index: vectors is the store the index
\* check left, now is date.today(), cache the process's lru_cache, and
\* query_ok / query_vec the answer of the embedding service to a query
\* request, should one be made
find_relevant_rows(q, csv_path, max_rows, include_summary, availability_only, api_key, vectors, now, model, cache, query_ok, query_vec) ==
    LET items == _load_index_rows(vectors, csv_path)
        resolved == _resolve_query_date(q, now)
        room_type_filter == _detect_room_type(q, RowsOf(items))
        OnDate(item) == item.row_date = resolved.date
        date_rows == SelectSeq(items, OnDate)
        OnMonthDay(item) == SameMonthDay(item.row_date, resolved.date)
        month_day_rows == SelectSeq(items, OnMonthDay)
    IN  IF ~api_key THEN Found(<<>>, NoSummary, FALSE, "no_key", 0, cache)
        ELSE IF items = <<>> THEN Found(<<>>, NoSummary, FALSE, "no_rows", 0, cache)
        ELSE IF IsBlank(q) THEN Found(<<>>, NoSummary, FALSE, "blank", 0, cache)
        ELSE IF resolved.date # NoDate /\ date_rows # <<>>
        THEN DateMatch(date_rows, q, resolved, resolved.is_explicit_year, max_rows,
                       include_summary, availability_only, room_type_filter,
                       "exact_date", cache)
        ELSE IF /\ resolved.date # NoDate
                /\ ~resolved.is_explicit_year
                /\ month_day_rows # <<>>
        THEN DateMatch(month_day_rows, q, resolved, FALSE, max_rows,
                       include_summary, availability_only, room_type_filter,
                       "month_day", cache)
        ELSE SemanticMatch(items, q, model, max_rows, include_summary, availability_only,
                           room_type_filter, cache, query_ok, query_vec)

(***************************************************************************)
(* Context formatting (context.py).  The text block is the sequence of its *)
(* lines; a line is its kind, the values formatted into it, and for a      *)
(* sample line the row it shows.                                           *)
(***************************************************************************)
_AVAILABILITY_TERMS == {"available", "availability", "vacant", "vacancy", "open", "free"}

\* bool(tokens & _AVAILABILITY_TERMS)
_wants_availability(q) == QueryTextTokens(q) \cap _AVAILABILITY_TERMS # {}

\* _ROOM_NUMBER_RE finds "room number", "room numbers" or "which room" in the
\* text; the words of a query of the model stand next to each other in its
\* text, "room" before "number" and "which" before "room"
_wants_room_numbers(q) ==
    \/ "room" \in q.words /\ q.words \cap {"number", "numbers"} # {}
    \/ {"which", "room"} \subseteq q.words

\* the default of preview_limit
preview_limit == 4

NoRow == Row(NoDate, "", "", "")

Line(kind, items, n) == [kind |-> kind, items |-> items, n |-> n, row |-> NoRow]

SampleLine(row) == [kind |-> "sample_row", items |-> <<>>, n |-> 0, row |-> row]

\* the result pair of _format_room_number_list; the preview is the sequence
\* of the numbers that ", ".join writes (<<>>: None)
Preview(preview, remaining) == [preview |-> preview, remaining |-> remaining]

\* _format_room_number_list showing every room number
_format_room_number_list_all(room_numbers) == Preview(room_numbers, 0)

\* _format_room_number_list(room_numbers)
_format_room_number_list(room_numbers) ==
    IF room_numbers = <<>> THEN Preview(<<>>, 0)
    ELSE LET preview == Limit(room_numbers, preview_limit)
             rest == Len(room_numbers) - Len(preview)
         IN  Preview(preview, IF rest > 0 THEN rest ELSE 0)

\* the room types of the model in the order of sorted()
TypeOrder == <<"Queen", "Twin", "Unknown">>

\* lines 70-77: one count line per room type, in sorted order
CountLines(room_type_counts) ==
    LET Counted(t) == t \in DOMAIN room_type_counts
        types == SelectSeq(TypeOrder, Counted)
    IN  [i \in 1..Len(types) |-> Line("count", <<types[i]>>, room_type_counts[types[i]])]

\* lines 66-91 with the counts written whether or not the summary is complete
CountBlock_always(summary) ==
    IF summary.total = 0
    THEN << Line("no_match", <<>>, 0), Line("use_counts", <<>>, 0),
            Line("ask_preference", <<>>, 0) >>
    ELSE << Line("counts_header", <<>>, 0) >> \o CountLines(summary.room_type_counts)
            \o << Line("total", <<>>, summary.total), Line("use_counts", <<>>, 0),
                  Line("ask_preference", <<>>, 0) >>

\* lines 66-91: the counts of a complete summary, or the note that retrieval
\* is partial
CountBlock(summary) ==
    IF summary.summary_complete
    THEN IF summary.total = 0
         THEN << Line("no_match", <<>>, 0), Line("use_counts", <<>>, 0),
                 Line("ask_preference", <<>>, 0) >>
         ELSE << Line("counts_header", <<>>, 0) >> \o CountLines(summary.room_type_counts)
                 \o << Line("total", <<>>, summary.total), Line("use_counts", <<>>, 0),
                       Line("ask_preference", <<>>, 0) >>
    ELSE << Line("partial", <<>>, 0) >>

\* lines 93-115: the room-number lines
RoomNumberBlock(summary, wants_room_numbers) ==
    IF ~wants_room_numbers THEN <<>>
    ELSE IF summary.summary_complete
    THEN LET listed == _format_room_number_list(summary.room_numbers)
         IN  IF listed.preview = <<>> THEN <<>>
             ELSE << Line("room_numbers", listed.preview, listed.remaining) >>
                  \o (IF listed.remaining > 0
                      THEN << Line("ask_full_list", <<>>, 0) >> ELSE <<>>)
    ELSE << Line("room_numbers_unavailable", <<>>, 0) >>

\* the summary lines with a "Date:" line written whatever the label
SummaryBlock_alwaysDate(summary, wants_room_numbers) ==
    << Line("date", <<summary.date_label>>, 0) >>
    \o (IF summary.room_type_filter # ""
        THEN << Line("room_type_filter", <<summary.room_type_filter>>, 0) >> ELSE <<>>)
    \o << Line("status_filter",
               <<IF summary.availability_only THEN "available only" ELSE "all statuses">>, 0) >>
    \o CountBlock(summary)
    \o RoomNumberBlock(summary, wants_room_numbers)

\* lines 50-115: the lines written from the summary
SummaryBlock(summary, wants_room_numbers) ==
    (IF summary.date_label # "" THEN << Line("date", <<summary.date_label>>, 0) >> ELSE <<>>)
    \o (IF summary.room_type_filter # ""
        THEN << Line("room_type_filter", <<summary.room_type_filter>>, 0) >> ELSE <<>>)
    \o << Line("status_filter",
               <<IF summary.availability_only THEN "available only" ELSE "all statuses">>, 0) >>
    \o CountBlock(summary)
    \o RoomNumberBlock(summary, wants_room_numbers)

\* lines 117-152: the sample rows
SampleBlock(rows, max_rows) ==
    IF rows = <<>> THEN <<>>
    ELSE << Line("sample_header", <<>>, max_rows) >> \o [i \in 1..Len(rows) |-> SampleLine(rows[i])]

\* lines 44-153 of build_booking_context: the text for what find_relevant_rows
\* returned (<<>>: the empty string)
FormatContext(rows, summary, has_summary, wants_room_numbers, max_rows) ==
    IF rows = <<>> /\ ~has_summary THEN <<>>
    ELSE << Line("header", <<>>, 0) >>
         \o (IF has_summary THEN SummaryBlock(summary, wants_room_numbers) ELSE <<>>)
         \o SampleBlock(rows, max_rows)

\* what build_booking_context gave its caller: a text, or an exception
Context(raised, lines) == [raised |-> raised, lines |-> lines]

NoContext == Context(FALSE, <<>>)

(***************************************************************************)
(* State.                                                                  *)
(***************************************************************************)
VARIABLES
    today,            \* date.today()
    api_key,          \* whether OPENAI_API_KEY is set
    EMBED_MODEL,      \* the embedding-model id of the running process
    files,            \* the dataset file at each path: existence, mtime, data rows
    clock,            \* the latest modification time given to a file
    booking_vectors,  \* table booking_vectors, in rowid order
    booking_meta,     \* table booking_meta
    cache,            \* the lru_cache of _embed_query_cached of the running process
    call,             \* the call in flight: its arguments and what it returned
    procs,            \* the processes running _ensure_index side by side
    schema,           \* the shape of the row table in the store file
    context,          \* what build_booking_context returned to the call in flight
    resolved,         \* what _resolve_query_date returned last
    app_meta,         \* table meta of the conversation store: call_sid, pending_user_text
    messages,         \* table messages of the conversation store, in id order
    request,          \* the telephony request handled last and what it was answered
    history           \* what the requests handled so far did, call by call

vars == <<today, api_key, EMBED_MODEL, files, clock, booking_vectors, booking_meta, cache, call, procs,
          schema, context, resolved, app_meta, messages, request, history>>

\* the conversation store and the requests of the telephony routes
voice_vars == <<app_meta, messages, request, history>>

\* the processes of the concurrent index check
Procs == {1, 2}

\* a process at a step of _ensure_index, with what it has read so far
Proc(pc, csv_path, mtime, rows, embeddings) ==
    [pc |-> pc, csv_path |-> csv_path, mtime |-> mtime, rows |-> rows, embeddings |-> embeddings]

Idle == Proc("idle", "", 0, <<>>, <<>>)

Todays == {Date(2025, 6, 9)}

\* max_rows values callers pass; 5 is the default
Limits == {1, 5}

Queries ==
    { Query(Date(2025, 6, 10), "", NoMD, NoWD, {}),
      Query(Date(1999, 6, 10), "", NoMD, NoWD, {}),
      Query(NoDate, "", MonthDay(10, "june", 0), NoWD, {}),
      Query(NoDate, "", MonthDay(11, "june", 0), NoWD, {}),
      Query(NoDate, "", MonthDay(10, "june", 2025), NoWD, {"is", "anything", "available"}),
      Query(NoDate, "", MonthDay(10, "june", 0), NoWD, {"twin"}),
      Query(NoDate, "tomorrow", NoMD, NoWD, {}),
      Query(NoDate, "", NoMD, NoWD, {"room", "availability"}),
      Query(NoDate, "", NoMD, NoWD, {"queen"}),
      BlankQuery }

NoFound == Found(<<>>, NoSummary, FALSE, "none", 0, <<>>)

\* a record of a call in flight: op is "find" or "ensure" ("none": no call is
\* in flight); ensured is the outcome of its index check and index_calls the
\* embedding requests of that check
Call(op, csv_path, q, max_rows, availability_only, ensured, index_calls, found) ==
    [op |-> op, csv_path |-> csv_path, query |-> q, max_rows |-> max_rows,
     availability_only |-> availability_only, ensured |-> ensured,
     index_calls |-> index_calls, found |-> found]

NoCall == Call("none", "", BlankQuery, 0, FALSE, "none", 0, NoFound)

\* nothing resolved yet
NoResolved == Resolved(NoDate, FALSE)

\* the embedding service failing
ServiceError == <<>>

\* whether _ensure_index reaches _rebuild_index for this path
Rebuilds(csv_path) ==
    /\ files[csv_path].exists
    /\ ~IsCurrent(Opened(schema, booking_vectors, files[csv_path]).vectors, booking_meta,
                  csv_path, files[csv_path].mtime, EMBED_MODEL)
    /\ files[csv_path].rows # <<>>

\* what the embedding service may answer while the index of a path is
\* rebuilt: an error, or one vector per row
IndexAnswers(csv_path) ==
    IF Rebuilds(csv_path)
    THEN {ServiceError} \cup [1..Len(files[csv_path].rows) -> EmbVecs]
    ELSE {ServiceError}

\* what the embedding service may answer to a query request
QueryAnswers == {ServiceError} \cup QueryVecs

(***************************************************************************)
(* The conversation store of the telephony routes (app/db.py and           *)
(* app/call_state.py): table meta holds one row per key, table messages    *)
(* the transcript.                                                         *)
(***************************************************************************)
\* the CallSid values of the calls in progress; a request without a CallSid
\* carries NoSid
CallSids == {"CA1", "CA2"}

NoSid == ""

\* table meta: get_meta of a key that has no row is None, which every reader
\* treats as the empty value
Meta(call_sid, pending_user_text) ==
    [call_sid |-> call_sid, pending_user_text |-> pending_user_text]

\* a row of table messages; epoch is the number of changes of the stored call
\* identifier that had happened when the row was saved
Message(role, content, epoch) == [role |-> role, content |-> content, epoch |-> epoch]

\* a handled request: the route, the CallSid and the text it worked on, and
\* what the response says
Request(route, call_sid, user_text, said) ==
    [route |-> route, call_sid |-> call_sid, user_text |-> user_text, said |-> said]

NoRequest == Request("none", NoSid, BlankQuery, "")

\* init_db(): both tables exist and are empty
InitVoiceState ==
    /\ app_meta = Meta(NoSid, BlankQuery)
    /\ messages = <<>>
    /\ request = NoRequest
    /\ history = [stored |-> [sid \in CallSids |-> BlankQuery], changes |-> 0]

(***************************************************************************)
(* The search service: one dataset, requests served one at a time, each    *)
(* by a freshly started process (a serverless deployment), so that the     *)
(* query-embedding cache starts empty.                                     *)
(***************************************************************************)
\* the dataset an earlier run of the service indexed
EarlierRows ==
    << Row(Date(2025, 6, 10), "12", "Queen", "Available"),
       Row(Date(2025, 6, 10), "5", "Twin", "occupied") >>

\* the index an earlier run left for a path: built from the snapshot of
\* modification time 0, which had the same rows
EarlierIndex(csv_path, rows) ==
    InsertVectors(<<>>, csv_path, rows, [i \in 1..Len(rows) |-> <<1, 0>>], 0)

Init ==
    /\ today \in Todays
    /\ api_key \in BOOLEAN
    /\ EMBED_MODEL = "text-embedding-3-small"
    /\ \E file \in {NoFile} \cup {File(1, rows) : rows \in Snapshots} :
          files = [p \in Paths |-> IF p = "a.csv" THEN file ELSE NoFile]
    /\ clock = 1
    /\ \/ /\ schema = "none"
          /\ booking_vectors = <<>>
          /\ booking_meta = NoMeta
       \/ /\ files["a.csv"].rows = EarlierRows
          /\ schema = "current"
          /\ booking_vectors = EarlierIndex("a.csv", EarlierRows)
          /\ booking_meta = SetMeta("a.csv", 0, EMBED_MODEL)
    /\ cache = <<>>
    /\ call = NoCall
    /\ procs = [n \in Procs |-> Idle]
    /\ context = NoContext
    /\ resolved = NoResolved
    /\ InitVoiceState

\* find_relevant_rows checking the index before it tests the credential
Search_indexFirst(cache_before, q, csv_path, max_rows, availability_only, index_answer, query_answer) ==
    LET opened == Opened(schema, booking_vectors, files[csv_path])
        ensured == _ensure_index(opened.vectors, booking_meta, files[csv_path],
                                 csv_path, EMBED_MODEL,
                                 index_answer # ServiceError, index_answer)
        found == IF api_key /\ opened.schema # "current"
                 THEN Found(<<>>, NoSummary, FALSE, "raised", 0, cache_before)
                 ELSE find_relevant_rows(q, csv_path, max_rows, TRUE, availability_only,
                                         api_key, ensured.vectors, today, EMBED_MODEL,
                                         cache_before, query_answer # ServiceError,
                                         query_answer)
    IN  [schema |-> opened.schema, ensured |-> ensured, found |-> found]

\* find_relevant_rows up to its return: the credential test, the index
\* check, the rows loaded from the store (an sqlite3.OperationalError leaves
\* the function when the row table is not as _init_db creates it), the search
Search(cache_before, q, csv_path, max_rows, availability_only, index_answer, query_answer) ==
    LET opened == IF api_key
                  THEN Opened(schema, booking_vectors, files[csv_path])
                  ELSE Store(schema, booking_vectors)
        ensured == IF api_key
                   THEN _ensure_index(opened.vectors, booking_meta, files[csv_path],
                                      csv_path, EMBED_MODEL,
                                      index_answer # ServiceError, index_answer)
                   ELSE Ensured(booking_vectors, booking_meta, "none", 0)
        found == IF api_key /\ opened.schema # "current"
                 THEN Found(<<>>, NoSummary, FALSE, "raised", 0, cache_before)
                 ELSE find_relevant_rows(q, csv_path, max_rows, TRUE, availability_only,
                                         api_key, ensured.vectors, today, EMBED_MODEL,
                                         cache_before, query_answer # ServiceError,
                                         query_answer)
    IN  [schema |-> opened.schema, ensured |-> ensured, found |-> found]

\* find_relevant_rows(q, csv_path, max_rows, include_summary=True, availability_only)
\* with the process's cache as cache_before: the index check, then the search
FindWith(cache_before, q, csv_path, max_rows, availability_only, index_answer, query_answer) ==
    LET searched == Search(cache_before, q, csv_path, max_rows, availability_only,
                           index_answer, query_answer)
    IN  /\ call.op = "none"
        /\ schema' = searched.schema
        /\ booking_vectors' = searched.ensured.vectors
        /\ booking_meta' = searched.ensured.meta
        /\ cache' = searched.found.cache
        /\ call' = Call("find", csv_path, q, max_rows, availability_only,
                        searched.ensured.outcome, searched.ensured.calls, searched.found)
        /\ UNCHANGED <<voice_vars, today, api_key, EMBED_MODEL, files, clock, procs, context, resolved>>

\* a request served by a new process
FindCold(q, csv_path, max_rows, availability_only, index_answer, query_answer) ==
    FindWith(<<>>, q, csv_path, max_rows, availability_only, index_answer, query_answer)

\* build_booking_context(query, csv_path, max_rows) served by a new process
BuildContext(q, csv_path, max_rows, index_answer, query_answer) ==
    LET wants_room_numbers == _wants_room_numbers(q)
        availability_only == _wants_availability(q) \/ wants_room_numbers
        searched == Search(<<>>, q, csv_path, max_rows, availability_only,
                           index_answer, query_answer)
        found == searched.found
    IN  /\ call.op = "none"
        /\ schema' = searched.schema
        /\ booking_vectors' = searched.ensured.vectors
        /\ booking_meta' = searched.ensured.meta
        /\ cache' = found.cache
        /\ call' = Call("context", csv_path, q, max_rows, availability_only,
                        searched.ensured.outcome, searched.ensured.calls, found)
        /\ context' = IF found.path = "raised"
                      THEN Context(TRUE, <<>>)
                      ELSE Context(FALSE, FormatContext(found.rows, found.summary,
                                                        found.has_summary,
                                                        wants_room_numbers, max_rows))
        /\ UNCHANGED <<voice_vars, today, api_key, EMBED_MODEL, files, clock, procs, resolved>>

\* the call in flight returns to its caller and the process that served it
\* ends, its cache with it
ReturnAndExit ==
    /\ call.op # "none"
    /\ call' = NoCall
    /\ cache' = <<>>
    /\ context' = NoContext
    /\ resolved' = NoResolved
    /\ UNCHANGED <<voice_vars, today, api_key, EMBED_MODEL, files, clock, booking_vectors, booking_meta, procs, schema>>

\* the utterances build_booking_context is called with
ContextQueries ==
    { Query(NoDate, "tomorrow", NoMD, NoWD, {"what", "room", "numbers", "are", "free"}),
      Query(NoDate, "", MonthDay(10, "june", 0), NoWD, {"twin", "available"}),
      Query(NoDate, "", NoMD, NoWD, {"room", "availability"}),
      Query(NoDate, "", NoMD, NoWD, {"which", "room", "queen"}),
      Query(Date(2025, 6, 10), "", NoMD, NoWD, {}) }

Next ==
    \/ \E q \in Queries, max_rows \in Limits, availability_only \in BOOLEAN,
          index_answer \in IndexAnswers("a.csv"), query_answer \in QueryAnswers :
          FindCold(q, "a.csv", max_rows, availability_only, index_answer, query_answer)
    \/ \E q \in ContextQueries, max_rows \in Limits,
          index_answer \in IndexAnswers("a.csv"), query_answer \in QueryAnswers :
          BuildContext(q, "a.csv", max_rows, index_answer, query_answer)
    \/ ReturnAndExit

Spec == Init /\ [][Next]_vars

(***************************************************************************)
(* The index store over time: the dataset files are written and removed,   *)
(* the service is restarted with another embedding model, and              *)
(* _ensure_index is called for either path and the paths are searched, one *)
(* call at a time.                                                         *)
(***************************************************************************)
\* the datasets written in the index specifications: one without data
\* rows, one with one row, one with two
IndexSnapshots ==
    { <<>>,
      << Row(Date(2025, 6, 10), "12", "Queen", "Available") >>,
      << Row(Date(2025, 6, 10), "5", "Twin", "occupied"),
         Row(Date(2025, 6, 11), "12", "Queen", "Available") >> }

\* what the embedding service may answer while the index of a path is
\* rebuilt in the index specifications: an error, or one vector per row
IndexEmbeddings(csv_path) ==
    IF Rebuilds(csv_path)
    THEN {ServiceError, [i \in 1..Len(files[csv_path].rows) |-> <<1, 0>>]}
    ELSE {ServiceError}

\* the utterances searched in the index specification: a date of the
\* datasets, and a room type
IndexQueries ==
    { Query(Date(2025, 6, 10), "", NoMD, NoWD, {}),
      Query(NoDate, "", NoMD, NoWD, {"queen"}) }

\* a store file left by a prior version of the service: its row table has no
\* row_text column and holds a row indexed for b.csv
PriorStore ==
    Store("prior", InsertVectors(<<>>, "b.csv",
                                 << Row(Date(2025, 6, 10), "12", "Queen", "Available") >>,
                                 << <<1, 0>> >>, 0))

InitIndex ==
    /\ today = Date(2025, 6, 9)
    /\ api_key = TRUE
    /\ EMBED_MODEL = "text-embedding-3-small"
    /\ files = [p \in Paths |-> NoFile]
    /\ clock = 0
    /\ \E store \in {Store("none", <<>>), PriorStore} :
          /\ schema = store.schema
          /\ booking_vectors = store.vectors
    /\ booking_meta = NoMeta
    /\ cache = <<>>
    /\ call = NoCall
    /\ procs = [n \in Procs |-> Idle]
    /\ context = NoContext
    /\ resolved = NoResolved
    /\ InitVoiceState

\* the dataset at a path is written: a new snapshot with a later mtime
WriteFile(csv_path, rows) ==
    /\ call.op = "none"
    /\ clock < MaxMtime
    /\ clock' = clock + 1
    /\ files' = [files EXCEPT ![csv_path] = File(clock + 1, rows)]
    /\ UNCHANGED <<voice_vars, today, api_key, EMBED_MODEL, booking_vectors, booking_meta, cache, call, procs, schema, context, resolved>>

\* the dataset at a path is removed
RemoveFile(csv_path) ==
    /\ call.op = "none"
    /\ files[csv_path].exists
    /\ files' = [files EXCEPT ![csv_path] = NoFile]
    /\ UNCHANGED <<voice_vars, today, api_key, EMBED_MODEL, clock, booking_vectors, booking_meta, cache, call, procs, schema, context, resolved>>

\* the service is started again with BOOKING_EMBED_MODEL set to another model
Restart(model) ==
    /\ call.op = "none"
    /\ model # EMBED_MODEL
    /\ EMBED_MODEL' = model
    /\ cache' = <<>>
    /\ UNCHANGED <<voice_vars, today, api_key, files, clock, booking_vectors, booking_meta, call, procs, schema, context, resolved>>

\* _ensure_index(csv_path, db_path), from its first line to its return
EnsureIndex(csv_path, index_answer) ==
    LET opened == Opened(schema, booking_vectors, files[csv_path])
        ensured == _ensure_index(opened.vectors, booking_meta, files[csv_path], csv_path,
                                 EMBED_MODEL, index_answer # ServiceError, index_answer)
    IN  /\ call.op = "none"
        /\ schema' = opened.schema
        /\ booking_vectors' = ensured.vectors
        /\ booking_meta' = ensured.meta
        /\ call' = Call("ensure", csv_path, BlankQuery, 0, FALSE, ensured.outcome,
                        ensured.calls, NoFound)
        /\ UNCHANGED <<voice_vars, today, api_key, EMBED_MODEL, files, clock, cache, procs, context, resolved>>

NextIndex ==
    \/ \E csv_path \in Paths, rows \in IndexSnapshots : WriteFile(csv_path, rows)
    \/ \E csv_path \in Paths : RemoveFile(csv_path)
    \/ \E model \in Models : Restart(model)
    \/ \E csv_path \in Paths : \E index_answer \in IndexEmbeddings(csv_path) :
          EnsureIndex(csv_path, index_answer)
    \/ \E q \in IndexQueries, csv_path \in Paths, query_answer \in QueryAnswers :
          \E index_answer \in IndexEmbeddings(csv_path) :
             FindCold(q, csv_path, 5, FALSE, index_answer, query_answer)
    \/ ReturnAndExit

SpecIndex == InitIndex /\ [][NextIndex]_vars

(***************************************************************************)
(* Two processes running _ensure_index for the same path against the same  *)
(* store.  A step is what one process does up to its next commit or        *)
(* embedding request: the store is shared, what a process has read is its  *)
(* own.                                                                    *)
(***************************************************************************)
\* the path both processes are asked to index
SharedPath == "a.csv"

InitConc ==
    /\ today = Date(2025, 6, 9)
    /\ api_key = TRUE
    /\ EMBED_MODEL = "text-embedding-3-small"
    /\ \E rows \in IndexSnapshots :
          files = [p \in Paths |-> IF p = SharedPath THEN File(1, rows) ELSE NoFile]
    /\ clock = 1
    /\ booking_vectors = <<>>
    /\ booking_meta = NoMeta
    /\ cache = <<>>
    /\ call = NoCall
    /\ procs = [n \in Procs |-> Idle]
    /\ schema = "none"
    /\ context = NoContext
    /\ resolved = NoResolved
    /\ InitVoiceState

\* lines 164-192: the file is looked up, the metadata and the row count are
\* read, and the dataset is loaded when the index is not current
CheckStale(n, csv_path) ==
    LET file == files[csv_path]
        opened == Opened(schema, booking_vectors, file)
        stale == /\ file.exists
                 /\ ~IsCurrent(opened.vectors, booking_meta, csv_path, file.mtime, EMBED_MODEL)
                 /\ file.rows # <<>>
    IN  /\ procs[n].pc = "idle"
        /\ schema' = opened.schema
        /\ booking_vectors' = opened.vectors
        /\ procs' = [procs EXCEPT ![n] =
                        IF stale
                        THEN Proc("delete", csv_path, file.mtime, file.rows, <<>>)
                        ELSE Proc("returned", csv_path, 0, <<>>, <<>>)]
        /\ UNCHANGED <<voice_vars, today, api_key, EMBED_MODEL, files, clock, booking_meta, cache, call,
                       context, resolved>>

\* lines 124-125: the DELETE of _rebuild_index and its commit
DeleteStep(n) ==
    /\ procs[n].pc = "delete"
    /\ booking_vectors' = DeleteVectors(booking_vectors, procs[n].csv_path)
    /\ procs' = [procs EXCEPT ![n].pc = "embed"]
    /\ UNCHANGED <<voice_vars, today, api_key, EMBED_MODEL, files, clock, booking_meta, cache, call, schema, context, resolved>>

\* lines 131-145 and 193-196: the embedding requests of _rebuild_index, which
\* fill to_insert or raise OpenAIError, on which _ensure_index returns
EmbedStep(n, index_answer) ==
    /\ procs[n].pc = "embed"
    /\ procs' = [procs EXCEPT ![n] =
                    IF index_answer = ServiceError
                    THEN [@ EXCEPT !.pc = "failed"]
                    ELSE [@ EXCEPT !.pc = "insert", !.embeddings = index_answer]]
    /\ UNCHANGED <<voice_vars, today, api_key, EMBED_MODEL, files, clock, booking_vectors,
                   booking_meta, cache, call, schema, context, resolved>>

\* lines 147-160: the executemany INSERT of _rebuild_index and its commit
InsertStep(n) ==
    /\ procs[n].pc = "insert"
    /\ booking_vectors' = InsertVectors(booking_vectors, procs[n].csv_path, procs[n].rows,
                                        procs[n].embeddings, procs[n].mtime)
    /\ procs' = [procs EXCEPT ![n].pc = "set_csv_path"]
    /\ UNCHANGED <<voice_vars, today, api_key, EMBED_MODEL, files, clock, booking_meta, cache, call, schema, context, resolved>>

\* line 197: _set_meta(conn, "csv_path", csv_path) and its commit
SetPathStep(n) ==
    /\ procs[n].pc = "set_csv_path"
    /\ booking_meta' = [booking_meta EXCEPT !.csv_path = procs[n].csv_path]
    /\ procs' = [procs EXCEPT ![n].pc = "set_csv_mtime"]
    /\ UNCHANGED <<voice_vars, today, api_key, EMBED_MODEL, files, clock, booking_vectors, cache, call, schema, context, resolved>>

\* line 198: _set_meta(conn, "csv_mtime", mtime) and its commit
SetMtimeStep(n) ==
    /\ procs[n].pc = "set_csv_mtime"
    /\ booking_meta' = [booking_meta EXCEPT !.csv_mtime = procs[n].mtime]
    /\ procs' = [procs EXCEPT ![n].pc = "set_embed_model"]
    /\ UNCHANGED <<voice_vars, today, api_key, EMBED_MODEL, files, clock, booking_vectors, cache, call, schema, context, resolved>>

\* line 199: _set_meta(conn, "embed_model", EMBED_MODEL), its commit, and the
\* return of _ensure_index
SetModelStep(n) ==
    /\ procs[n].pc = "set_embed_model"
    /\ booking_meta' = [booking_meta EXCEPT !.embed_model = EMBED_MODEL]
    /\ procs' = [procs EXCEPT ![n].pc = "rebuilt"]
    /\ UNCHANGED <<voice_vars, today, api_key, EMBED_MODEL, files, clock, booking_vectors, cache, call, schema, context, resolved>>

\* what the embedding service may answer to the rebuild a process is in
ProcEmbeddings(n) ==
    {ServiceError, [i \in 1..Len(procs[n].rows) |-> <<1, 0>>]}

NextConc ==
    \E n \in Procs :
        \/ CheckStale(n, SharedPath)
        \/ DeleteStep(n)
        \/ \E index_answer \in ProcEmbeddings(n) : EmbedStep(n, index_answer)
        \/ InsertStep(n)
        \/ SetPathStep(n)
        \/ SetMtimeStep(n)
        \/ SetModelStep(n)

SpecConc == InitConc /\ [][NextConc]_vars

(***************************************************************************)
(* The formatter alone: build_booking_context from line 44 on, applied to  *)
(* what find_relevant_rows returned for a date of up to MaxRooms rooms.    *)
(***************************************************************************)
\* the rooms of the date, in the order of the dataset
RoomList == <<"12", "5", "A1", "7", "1", "2", "3">>

\* the first n rooms, all available on the date
RoomsOfDate(n) ==
    [i \in 1..n |-> Row(Date(2025, 6, 10), RoomList[i],
                        IF i % 2 = 0 THEN "Twin" ELSE "Queen", "Available")]

\* the utterances of the formatter specification
FormatQueries ==
    { Query(NoDate, "tomorrow", NoMD, NoWD, {"what", "room", "numbers", "are", "free"}),
      Query(NoDate, "tomorrow", NoMD, NoWD, {"anything", "free"}),
      Query(NoDate, "", NoMD, NoWD, {"which", "room"}),
      Query(NoDate, "", NoMD, NoWD, {"vacancy"}),
      Query(Date(2025, 6, 10), "", NoMD, NoWD, {"room", "number"}) }

\* what find_relevant_rows returns for the rooms of a date: by a date path
\* when the query resolves to a date, by the ranking path otherwise
FoundFor(q, rows, max_rows) ==
    LET CallDate0 == _resolve_query_date(q, Date(2025, 6, 9))
        complete == CallDate0.date # NoDate
        summary == _summarize_rows(rows, IF complete THEN CallDate0.date ELSE NoDate,
                                   CallDate0.is_explicit_year, TRUE, "", complete)
    IN  Found(Limit(rows, max_rows), summary, TRUE,
              IF complete THEN "exact_date" ELSE "semantic", IF complete THEN 0 ELSE 1, <<>>)

InitFormat ==
    /\ today = Date(2025, 6, 9)
    /\ api_key = TRUE
    /\ EMBED_MODEL = "text-embedding-3-small"
    /\ files = [p \in Paths |-> NoFile]
    /\ clock = 0
    /\ schema = "none"
    /\ booking_vectors = <<>>
    /\ booking_meta = NoMeta
    /\ cache = <<>>
    /\ procs = [n \in Procs |-> Idle]
    /\ context = NoContext
    /\ resolved = NoResolved
    /\ InitVoiceState
    /\ \E q \in FormatQueries, n \in 0..MaxRooms, max_rows \in Limits :
          call = Call("find", "a.csv", q, max_rows, TRUE, "current", 0,
                      IF n = 0 /\ _resolve_query_date(q, today).date = NoDate
                      THEN Found(<<>>, NoSummary, FALSE, "no_rows", 0, <<>>)
                      ELSE FoundFor(q, RoomsOfDate(n), max_rows))

\* lines 44-153 of build_booking_context
FormatStep ==
    /\ call.op = "find"
    /\ call' = [call EXCEPT !.op = "context"]
    /\ context' = Context(FALSE, FormatContext(call.found.rows, call.found.summary,
                                               call.found.has_summary,
                                               _wants_room_numbers(call.query),
                                               call.max_rows))
    /\ UNCHANGED <<voice_vars, today, api_key, EMBED_MODEL, files, clock, booking_vectors, booking_meta,
                   cache, procs, schema, resolved>>

NextFormat == FormatStep

SpecFormat == InitFormat /\ [][NextFormat]_vars

(***************************************************************************)
(* The date resolver alone, on every weekday.                              *)
(***************************************************************************)
\* a week of current dates, Monday 2025-06-09 to Sunday 2025-06-15, and the
\* last day of a year
DateTodays == {AddDays(Date(2025, 6, 9), n) : n \in 0..6} \cup {Date(2025, 12, 31)}

\* the utterances of the resolver specification
DateQueries ==
    { Query(NoDate, "", NoMD, [qualifier |-> qualifier, weekday |-> weekday], {}) :
        qualifier \in {"", "next", "this"}, weekday \in {"monday", "friday", "sunday"} }
    \cup { Query(Date(2025, 2, 30), "", NoMD, NoWD, {}),
           Query(Date(2025, 13, 1), "", NoMD, NoWD, {}),
           Query(Date(2025, 6, 10), "", NoMD, NoWD, {}),
           Query(NoDate, "", MonthDay(31, "june", 0), NoWD, {}),
           Query(NoDate, "", MonthDay(30, "feb", 2025), NoWD, {}),
           Query(NoDate, "", MonthDay(29, "february", 2024), NoWD, {}),
           Query(NoDate, "", MonthDay(0, "dec", 0), NoWD, {}),
           Query(NoDate, "", MonthDay(10, "june", 0), NoWD, {}),
           Query(NoDate, "tomorrow", NoMD, NoWD, {}),
           Query(NoDate, "day after tomorrow", NoMD, NoWD, {}),
           Query(NoDate, "today", NoMD, NoWD, {}),
           Query(NoDate, "", NoMD, NoWD, {"queen"}),
           \* texts that match several patterns
           Query(Date(2025, 6, 10), "tomorrow", MonthDay(12, "june", 0),
                 [qualifier |-> "", weekday |-> "friday"], {}),
           Query(Date(2025, 2, 30), "today", MonthDay(12, "june", 0),
                 [qualifier |-> "next", weekday |-> "monday"], {}),
           Query(Date(1999, 6, 10), "", MonthDay(12, "june", 0), NoWD, {}),
           Query(NoDate, "today or tomorrow", NoMD, NoWD, {}),
           Query(NoDate, "day after tomorrow", MonthDay(12, "june", 2026),
                 [qualifier |-> "", weekday |-> "sunday"], {}),
           Query(NoDate, "today", NoMD, [qualifier |-> "next", weekday |-> "friday"], {}),
           Query(NoDate, "", MonthDay(12, "june", 0),
                 [qualifier |-> "this", weekday |-> "monday"], {}),
           Query(NoDate, "", MonthDay(31, "june", 0),
                 [qualifier |-> "", weekday |-> "friday"], {}) }

InitDates ==
    /\ today \in DateTodays
    /\ api_key = TRUE
    /\ EMBED_MODEL = "text-embedding-3-small"
    /\ files = [p \in Paths |-> NoFile]
    /\ clock = 0
    /\ schema = "none"
    /\ booking_vectors = <<>>
    /\ booking_meta = NoMeta
    /\ cache = <<>>
    /\ call = NoCall
    /\ procs = [n \in Procs |-> Idle]
    /\ context = NoContext
    /\ resolved = NoResolved
    /\ InitVoiceState

\* _resolve_query_date(text)
ResolveDate(q) ==
    /\ call.op = "none"
    /\ call' = Call("resolve", "", q, 0, FALSE, "none", 0, NoFound)
    /\ resolved' = _resolve_query_date(q, today)
    /\ UNCHANGED <<voice_vars, today, api_key, EMBED_MODEL, files, clock, booking_vectors, booking_meta,
                   cache, procs, schema, context>>

NextDates ==
    \/ \E q \in DateQueries : ResolveDate(q)
    \/ ReturnAndExit

SpecDates == InitDates /\ [][NextDates]_vars

(***************************************************************************)
(* The search alone, over one indexed dataset whose rows repeat room       *)
(* numbers and leave cells blank, indexed with various embeddings.         *)
(***************************************************************************)
\* the indexed dataset
SearchRows ==
    << Row(Date(2025, 6, 10), "12", "Queen", "Available"),
       Row(Date(2025, 6, 10), "5", "Twin", "occupied"),
       Row(Date(2024, 6, 10), "12", "Queen", "vacant"),
       Row(Date(2025, 6, 10), "", "", "Available"),
       Row(Date(2025, 6, 10), "5", "", "Available") >>

\* the embeddings stored with the rows: cosine 1, 0 and 3/5 to the query
\* embedding <<1, 0>>
SearchVecs == {<<1, 0>>, <<0, 1>>, <<3, 4>>}

\* the embeddings of an index of the dataset: any vectors for the first four
\* rows, <<3, 4>> for the last
SearchEmbeddings ==
    {e \in [1..Len(SearchRows) -> SearchVecs] : e[Len(SearchRows)] = <<3, 4>>}

\* a current date in the year of the dataset, and one a year later
SearchTodays == {Date(2025, 6, 9), Date(2026, 6, 9)}

\* the utterances of the search specification
SearchQueries ==
    { Query(Date(2025, 6, 10), "", NoMD, NoWD, {}),
      Query(Date(2025, 6, 12), "", NoMD, NoWD, {}),
      Query(NoDate, "", MonthDay(10, "june", 0), NoWD, {}),
      Query(NoDate, "", MonthDay(10, "june", 0), NoWD, {"queen"}),
      Query(NoDate, "", MonthDay(11, "june", 0), NoWD, {}),
      Query(NoDate, "tomorrow", NoMD, NoWD, {}),
      Query(NoDate, "", NoMD, NoWD, {"queen"}),
      Query(NoDate, "", NoMD, NoWD, {"room", "availability"}) }

InitSearch ==
    /\ today \in SearchTodays
    /\ api_key = TRUE
    /\ EMBED_MODEL = "text-embedding-3-small"
    /\ files = [p \in Paths |-> IF p = "a.csv" THEN File(1, SearchRows) ELSE NoFile]
    /\ clock = 1
    /\ schema = "current"
    /\ \E embeddings \in SearchEmbeddings :
          booking_vectors = InsertVectors(<<>>, "a.csv", SearchRows, embeddings, 1)
    /\ booking_meta = SetMeta("a.csv", 1, EMBED_MODEL)
    /\ cache = <<>>
    /\ call = NoCall
    /\ procs = [n \in Procs |-> Idle]
    /\ context = NoContext
    /\ resolved = NoResolved
    /\ InitVoiceState

\* the utterances build_booking_context is called with in the search
\* specification: dates no row has, a date some rows have
SearchContextQueries ==
    { Query(Date(2025, 6, 12), "", NoMD, NoWD, {}),
      Query(NoDate, "", MonthDay(11, "june", 0), NoWD, {"anything", "available"}),
      Query(NoDate, "tomorrow", NoMD, NoWD, {"which", "room"}) }

NextSearch ==
    \/ \E q \in SearchQueries, max_rows \in Limits, availability_only \in BOOLEAN,
          query_answer \in QueryAnswers :
          FindCold(q, "a.csv", max_rows, availability_only, ServiceError, query_answer)
    \/ \E q \in SearchContextQueries, max_rows \in Limits, query_answer \in QueryAnswers :
          BuildContext(q, "a.csv", max_rows, ServiceError, query_answer)
    \/ ReturnAndExit

SpecSearch == InitSearch /\ [][NextSearch]_vars

(***************************************************************************)
(* One long-running process serving searches one after another, its        *)
(* query-embedding cache kept from one search to the next.  The queries    *)
(* name dates no indexed row has, so that every search reaches the ranking *)
(* path.                                                                   *)
(***************************************************************************)
\* the n-th of the distinct query texts "12 june 2030", "12 june 2031", ...
CacheQuery(n) == Query(NoDate, "", MonthDay(12, "june", 2029 + n), NoWD, {})

\* two more distinct texts than the cache holds
CacheQueryCount == maxsize + 2

\* the number of the latest of the texts the cache holds, 0 for an empty cache
LatestCached ==
    IF cache = <<>> THEN 0
    ELSE LET ns == {cache[i].key.query.md.year - 2029 : i \in 1..Len(cache)}
         IN  CHOOSE n \in ns : \A o \in ns : o <= n

\* the texts the process is asked next: the first text not asked with success
\* so far, the text of the most recently used entry, and, while the cache is
\* nearly empty or full, the first text
AskedNext ==
    (IF LatestCached < CacheQueryCount THEN {CacheQuery(LatestCached + 1)} ELSE {})
    \cup (IF cache = <<>> THEN {} ELSE {cache[Len(cache)].key.query})
    \cup (IF Len(cache) < 3 \/ Len(cache) = maxsize THEN {CacheQuery(1)} ELSE {})

InitCache ==
    /\ today = Date(2025, 6, 9)
    /\ api_key = TRUE
    /\ EMBED_MODEL = "text-embedding-3-small"
    /\ files = [p \in Paths |-> IF p = "a.csv" THEN File(1, EarlierRows) ELSE NoFile]
    /\ clock = 1
    /\ schema = "current"
    /\ booking_vectors = InsertVectors(<<>>, "a.csv", EarlierRows, <<<<1, 0>>, <<0, 1>>>>, 1)
    /\ booking_meta = SetMeta("a.csv", 1, EMBED_MODEL)
    /\ cache = <<>>
    /\ call = NoCall
    /\ procs = [n \in Procs |-> Idle]
    /\ context = NoContext
    /\ resolved = NoResolved
    /\ InitVoiceState

\* a request served by the running process
FindWarm(q, query_answer) ==
    FindWith(cache, q, "a.csv", 5, FALSE, ServiceError, query_answer)

\* the call in flight returns to its caller; the process goes on running
Return ==
    /\ call.op # "none"
    /\ call' = NoCall
    /\ UNCHANGED <<voice_vars, today, api_key, EMBED_MODEL, files, clock, booking_vectors, booking_meta,
                   cache, procs, schema, context, resolved>>

NextCache ==
    \/ \E q \in AskedNext, query_answer \in QueryAnswers : FindWarm(q, query_answer)
    \/ Return

SpecCache == InitCache /\ [][NextCache]_vars

(***************************************************************************)
(* Two datasets served from one store: both files hold data rows and stay  *)
(* as they are, and _ensure_index is called for the one path and the       *)
(* other in turn.                                                          *)
(***************************************************************************)
InitAlternate ==
    /\ today = Date(2025, 6, 9)
    /\ api_key = TRUE
    /\ EMBED_MODEL = "text-embedding-3-small"
    /\ \E rows_a, rows_b \in IndexSnapshots \ {<<>>} :
          files = [p \in Paths |-> IF p = "a.csv" THEN File(1, rows_a) ELSE File(1, rows_b)]
    /\ clock = 1
    /\ \E store \in {Store("none", <<>>), PriorStore} :
          /\ schema = store.schema
          /\ booking_vectors = store.vectors
    /\ booking_meta = NoMeta
    /\ cache = <<>>
    /\ call = NoCall
    /\ procs = [n \in Procs |-> Idle]
    /\ context = NoContext
    /\ resolved = NoResolved
    /\ InitVoiceState

\* the _ensure_index call in flight returns and the next call, for the other
\* path, is served from its first line to its return
EnsureOther(csv_path, index_answer) ==
    LET opened == Opened(schema, booking_vectors, files[csv_path])
        ensured == _ensure_index(opened.vectors, booking_meta, files[csv_path], csv_path,
                                 EMBED_MODEL, index_answer # ServiceError, index_answer)
    IN  /\ call.op = "ensure"
        /\ call.csv_path # csv_path
        /\ schema' = opened.schema
        /\ booking_vectors' = ensured.vectors
        /\ booking_meta' = ensured.meta
        /\ call' = Call("ensure", csv_path, BlankQuery, 0, FALSE, ensured.outcome,
                        ensured.calls, NoFound)
        /\ UNCHANGED <<voice_vars, today, api_key, EMBED_MODEL, files, clock, cache, procs, context, resolved>>

NextAlternate ==
    \/ \E csv_path \in Paths : \E index_answer \in IndexAnswers(csv_path) :
          EnsureIndex(csv_path, index_answer)
    \/ \E csv_path \in Paths : \E index_answer \in IndexAnswers(csv_path) :
          EnsureOther(csv_path, index_answer)

SpecAlternate == InitAlternate /\ [][NextAlternate]_vars

(***************************************************************************)
(* Properties of the relevance search, stated on the call in flight and    *)
(* the store it left.                                                      *)
(***************************************************************************)
\* the dataset rows indexed for a path, in store order
IndexedRows(csv_path) ==
    LET Mine(v) == v.csv_path = csv_path
    IN  RowsOf(SelectSeq(booking_vectors, Mine))

\* how many times a row occurs in a sequence of rows
Occurrences(rows, row) == Cardinality({i \in 1..Len(rows) : rows[i] = row})

\* the same rows, each as many times, in whatever order
SameRows(rows, others) == \A row \in RowPool : Occurrences(rows, row) = Occurrences(others, row)

\* a search that got as far as matching rows
Searched ==
    /\ call.op = "find"
    /\ call.found.path \in {"exact_date", "month_day", "semantic", "error"}

\* the date the query of the call resolves to
CallDate == _resolve_query_date(call.query, today)

\* the row-type filter the search detects for the query of the call
CallTypeFilter == _detect_room_type(call.query, IndexedRows(call.csv_path))

\* a row passes the availability and room-type filters of the call
PassesFilters(row) ==
    /\ call.availability_only => _is_available(row)
    /\ CallTypeFilter # "" => _normalize_room_type(row.room_type) = _normalize_room_type(CallTypeFilter)

\* the indexed rows whose parsed date is dt
OnDate(dt) ==
    LET Hit(row) == _parse_date_str(row.date) = dt
    IN  SelectSeq(IndexedRows(call.csv_path), Hit)

\* the indexed rows whose parsed date has the month and day of dt, in any year
OnMonthAndDay(dt) ==
    LET Hit(row) ==
            /\ _parse_date_str(row.date) # NoDate
            /\ _parse_date_str(row.date).m = dt.m
            /\ _parse_date_str(row.date).d = dt.d
    IN  SelectSeq(IndexedRows(call.csv_path), Hit)

\* some indexed row matches the resolved date of the call, exactly or, when
\* the year is not explicit, by month and day
DateMatched ==
    /\ CallDate.date # NoDate
    /\ \/ OnDate(CallDate.date) # <<>>
       \/ ~CallDate.is_explicit_year /\ OnMonthAndDay(CallDate.date) # <<>>

\* C1: a summary returned by find_relevant_rows has summary_complete = true
\* exactly when the rows came from the exact-date or the day/month path,
\* that is when some indexed row matched the resolved date; a summary of the
\* ranking path has summary_complete = false.
C1_SummaryCompleteIffDatePath ==
    (call.op = "find" /\ call.found.has_summary) =>
        /\ call.found.summary.summary_complete <=> call.found.path \in {"exact_date", "month_day"}
        /\ call.found.summary.summary_complete <=> DateMatched
        /\ call.found.path = "semantic" => ~call.found.summary.summary_complete

\* a ranking-path search that returned rows and a summary
C1_Witness ==
    /\ call.op = "find"
    /\ call.found.path = "semantic"
    /\ call.found.has_summary
    /\ call.found.rows # <<>>
    /\ ~call.found.summary.summary_complete

\* room numbers in the order the claim states: numeric ones by value, before
\* the others
NumericThenTextLess(s, t) ==
    IF IsDigitStr(s) /\ IsDigitStr(t) THEN IntOfStr(s) < IntOfStr(t)
    ELSE IF IsDigitStr(s) \/ IsDigitStr(t) THEN IsDigitStr(s)
    ELSE StrLess(s, t)

\* C2: on the exact-date and day/month paths the rows are returned in
\* ascending room-number order, numeric room numbers compared by value and
\* before alphanumeric ones.
C2_RowsInRoomNumberOrder ==
    (call.op = "find" /\ call.found.path \in {"exact_date", "month_day"}) =>
        \A i, j \in 1..Len(call.found.rows) :
            i < j => ~NumericThenTextLess(call.found.rows[j].room_number,
                                          call.found.rows[i].room_number)

\* the query that is exactly the ISO text of a date
IsoQuery(dt) == Query(dt, "", NoMD, NoWD, {})

\* the call is a search for the exact ISO date of an indexed row whose date
\* parses, with a credential configured, no filter active and a limit that
\* holds every match
IsoSearchOfIndexedDate ==
    /\ call.op = "find"
    /\ api_key
    /\ \E i \in 1..Len(IndexedRows(call.csv_path)) :
          LET dt == _parse_date_str(IndexedRows(call.csv_path)[i].date)
          IN  /\ dt # NoDate
              /\ call.query = IsoQuery(dt)
              /\ call.max_rows >= Len(OnDate(dt))
    /\ ~call.availability_only
    /\ CallTypeFilter = ""

\* C3, as claimed: the search for the exact ISO date of any indexed row whose
\* date parses returns exactly the indexed rows of that date.
C3_IsoDateReturnsItsRows ==
    IsoSearchOfIndexedDate => SameRows(call.found.rows, OnDate(call.query.iso))

\* C3, amended: the same for the dates of the years 2000 to 2099, the years
\* the ISO pattern of the date resolver accepts.
C3_IsoDateOfThisCenturyReturnsItsRows ==
    (IsoSearchOfIndexedDate /\ call.query.iso.y \in 2000..2099) =>
        /\ call.found.path = "exact_date"
        /\ SameRows(call.found.rows, OnDate(call.query.iso))

\* an ISO search that returned the row of the date and left the other row out
C3_Witness ==
    /\ IsoSearchOfIndexedDate
    /\ call.query.iso.y \in 2000..2099
    /\ Len(call.found.rows) = 1
    /\ Len(IndexedRows(call.csv_path)) = 2

\* the call resolved a date with no explicit year that no indexed row has
NoYearDateWithoutExactRow ==
    /\ Searched
    /\ CallDate.date # NoDate
    /\ ~CallDate.is_explicit_year
    /\ OnDate(CallDate.date) = <<>>

Min(a, b) == IF a < b THEN a ELSE b

\* the rows of a sequence that pass the filters of the call
Passing(rows) == SelectSeq(rows, PassesFilters)

\* the call returned the first rows of a complete summary over exactly the
\* rows of candidates that pass the filters
CompleteOver(candidates) ==
    /\ call.found.has_summary
    /\ call.found.summary.summary_complete
    /\ call.found.summary.total = Len(Passing(candidates))
    /\ Len(call.found.rows) = Min(call.max_rows, Len(Passing(candidates)))
    /\ \A row \in RowPool :
          Occurrences(call.found.rows, row) <= Occurrences(Passing(candidates), row)

\* C4, as claimed: for a resolved date with no explicit year that no indexed
\* row has, the search matches every indexed row of the same month and day
\* in any year and treats that set as the complete candidate set.
C4_MonthDayUnionIsComplete ==
    NoYearDateWithoutExactRow => CompleteOver(OnMonthAndDay(CallDate.date))

\* C4, amended: the same, provided at least one indexed row has that month
\* and day.
C4_NonemptyMonthDayUnionIsComplete ==
    (NoYearDateWithoutExactRow /\ OnMonthAndDay(CallDate.date) # <<>>) =>
        /\ call.found.path = "month_day"
        /\ CompleteOver(OnMonthAndDay(CallDate.date))

\* a day/month match that returned rows of two different years
C4_Witness ==
    /\ NoYearDateWithoutExactRow
    /\ call.found.path = "month_day"
    /\ Len(call.found.rows) = 2
    /\ call.found.rows[1].date.y # call.found.rows[2].date.y

\* the query of the call has a day/month phrase with no year, and no indexed
\* row has that day and month in any year
DayMonthPhraseWithoutRow ==
    /\ call.op = "find"
    /\ call.query.iso = NoDate
    /\ call.query.rel = ""
    /\ call.query.md # NoMD
    /\ call.query.md.year = 0
    /\ \A i \in 1..Len(IndexedRows(call.csv_path)) :
          LET dt == _parse_date_str(IndexedRows(call.csv_path)[i].date)
          IN  ~(dt # NoDate /\ dt.m = MonthNumber(call.query.md.month)
                            /\ dt.d = call.query.md.day)

\* the rows the ranking path scores: those sharing a token with the query,
\* or all of them when none does
RankingCandidates ==
    LET Shares(row) == RowTokens(row) \cap _query_tokens(call.query) # {}
        sharing == SelectSeq(IndexedRows(call.csv_path), Shares)
    IN  IF sharing # <<>> THEN sharing ELSE IndexedRows(call.csv_path)

EnsureStep == call.op = "none" /\ call'.op = "ensure"

\* the stored rows of a path, in the order of the store
StoredRows(vectors, csv_path) ==
    LET Mine(v) == v.csv_path = csv_path
    IN  SelectSeq(vectors, Mine)

\* the rows of a dataset at their positions
RowsAtPositions(rows) == [i \in 1..Len(rows) |-> [row_index |-> i - 1, row |-> rows[i]]]

\* the stored rows of a path at their positions, without their embeddings
StoredAtPositions(vectors, csv_path) ==
    LET stored == StoredRows(vectors, csv_path)
    IN  [i \in 1..Len(stored) |-> [row_index |-> stored[i].row_index, row |-> stored[i].row]]

\* the call that would follow for the path of the call in flight, with the
\* embedding service failing
CallAgain ==
    _ensure_index(booking_vectors, booking_meta, files[call.csv_path], call.csv_path,
                  EMBED_MODEL, FALSE, ServiceError)

\* C6: after an ensure_index call that rebuilt the index of a path, a second
\* call for that path with the file and the model as they are makes no
\* embedding request and leaves the stored rows and the metadata as they are.
C6_SecondEnsureIsNoOp ==
    [][(EnsureStep /\ call'.ensured = "rebuilt")
          => /\ CallAgain'.outcome = "current"
             /\ CallAgain'.calls = 0
             /\ CallAgain'.vectors = booking_vectors'
             /\ CallAgain'.meta = booking_meta']_vars

\* an ensure_index call found the index it had built before and returned
C6_Witness ==
    /\ call.op = "ensure"
    /\ call.ensured = "current"
    /\ call.index_calls = 0
    /\ RowCount(booking_vectors, call.csv_path) = Len(files[call.csv_path].rows)
    /\ booking_meta = SetMeta(call.csv_path, files[call.csv_path].mtime, EMBED_MODEL)

\* C7: when the modification time of the dataset differs from the stored one,
\* the ensure_index call for that path rebuilds the index (or fails while it
\* does), and no row built from an earlier snapshot of the path stays stored.
C7_NewSnapshotDropsOldRows ==
    [][(/\ EnsureStep
        /\ files[call'.csv_path].exists
        /\ booking_meta.csv_path = call'.csv_path
        /\ booking_meta.csv_mtime # files[call'.csv_path].mtime)
          => /\ call'.ensured \in {"rebuilt", "failed"}
             /\ \A i \in 1..Len(booking_vectors') :
                   booking_vectors'[i].csv_path = call'.csv_path
                      => booking_vectors'[i].built_from = files[call'.csv_path].mtime]_vars

\* C8: when the embedding service fails during a rebuild, ensure_index
\* leaves the metadata as it was, and the next call for the path reaches the
\* rebuild again.
C8_FailedRebuildIsRetried ==
    [][(EnsureStep /\ call'.ensured = "failed")
          => /\ booking_meta' = booking_meta
             /\ CallAgain'.outcome = "failed"
             /\ CallAgain'.calls = 1]_vars

\* a rebuild failed in a store whose metadata came from an earlier rebuild
C8_Witness ==
    /\ call.op = "ensure"
    /\ call.ensured = "failed"
    /\ call.index_calls = 1
    /\ booking_meta # NoMeta
    /\ files[call.csv_path].rows # <<>>

\* both processes went through their rebuild to its end
BothRebuilt == \A n \in Procs : procs[n].pc = "rebuilt"

\* C9: after two processes rebuilt the index of the same path side by side,
\* the store holds exactly one indexed row for each row position of the
\* dataset.
C9_OneRowPerPosition ==
    BothRebuilt
       => \A i \in 1..Len(files[SharedPath].rows) :
             Cardinality({k \in 1..Len(booking_vectors) :
                             /\ booking_vectors[k].csv_path = SharedPath
                             /\ booking_vectors[k].row_index = i - 1}) = 1

\* C10: an ensure_index call leaves the indexed rows of its path either as
\* they were or as the complete rows of the dataset, whether or not the
\* rebuild failed.
C10_OldRowsOrNewRows ==
    [][EnsureStep
          => \/ StoredAtPositions(booking_vectors', call'.csv_path)
                   = StoredAtPositions(booking_vectors, call'.csv_path)
             \/ StoredAtPositions(booking_vectors', call'.csv_path)
                   = RowsAtPositions(files[call'.csv_path].rows)]_vars

\* the stored rows of every path but that of the call being made are as
\* they were
OtherPathsUntouched ==
    \A csv_path \in Paths \ {call'.csv_path} :
        StoredRows(booking_vectors', csv_path) = StoredRows(booking_vectors, csv_path)

\* C11, as claimed: an ensure_index call for a path leaves the indexed rows of
\* every other path as they were, whatever the store.
C11_OtherPathsUntouched ==
    [][EnsureStep => OtherPathsUntouched]_vars

\* C11, amended: an ensure_index call for a path leaves the indexed rows of
\* every other path as they were, unless the row table of the store was
\* created by a prior version (no row_text column): that table is dropped.
C11_OtherPathsUntouchedInCurrentTable ==
    [][(EnsureStep /\ schema # "prior") => OtherPathsUntouched]_vars

\* the index of a path was rebuilt in a store that holds rows of another path
C11_Witness ==
    /\ call.op = "ensure"
    /\ call.ensured = "rebuilt"
    /\ \E csv_path \in Paths \ {call.csv_path} : RowCount(booking_vectors, csv_path) > 0
    /\ RowCount(booking_vectors, call.csv_path) > 0

\* a find_relevant_rows or build_booking_context call is in flight
Answering == call.op \in {"find", "context"}

\* C12: when the dataset file of a call does not exist, the call leaves the
\* store as it was and build_booking_context returns the empty string
\* without raising, whatever the store, one whose tables were never created
\* included.
C12_MissingFileGivesEmptyContext ==
    (call.op = "context" /\ ~files[call.csv_path].exists)
        => /\ ~context.raised
           /\ context.lines = <<>>
           /\ call.ensured \in {"none", "no_file"}

\* a find_relevant_rows or build_booking_context call is made in this step
AnswerStep == call.op = "none" /\ call'.op \in {"find", "context"}

\* C13: with no embedding-service credential configured, find_relevant_rows
\* returns no rows and no summary and build_booking_context the empty
\* string, for every query and every store, with no request to the embedding
\* service and with the store neither read nor changed.
C13_NoCredentialNoGrounding ==
    [][(AnswerStep /\ ~api_key)
          => /\ call'.found.rows = <<>>
             /\ ~call'.found.has_summary
             /\ call'.found.path = "no_key"
             /\ call'.found.calls = 0
             /\ call'.index_calls = 0
             /\ call'.ensured = "none"
             /\ call'.op = "context" => context' = Context(FALSE, <<>>)
             /\ booking_vectors' = booking_vectors
             /\ booking_meta' = booking_meta
             /\ schema' = schema]_vars

\* build_booking_context was called with no credential, for a date query
\* whose rows an earlier run had indexed
C13_Witness ==
    /\ call.op = "context"
    /\ ~api_key
    /\ call.query = Query(Date(2025, 6, 10), "", NoMD, NoWD, {})
    /\ RowCount(booking_vectors, call.csv_path) = 2
    /\ context = Context(FALSE, <<>>)

\* C14: when the embedding service fails while a query is served, during the
\* index rebuild or on the request for the query embedding,
\* find_relevant_rows returns no rows and no summary and
\* build_booking_context the empty string; no exception leaves the call.
C14_ServiceErrorGivesEmptyResult ==
    (Answering /\ (call.ensured = "failed" \/ call.found.path = "error"))
        => /\ call.found.rows = <<>>
           /\ ~call.found.has_summary
           /\ call.found.path \in {"no_rows", "error"}
           /\ call.op = "context" => context = Context(FALSE, <<>>)

\* the rebuild of a stale index failed while build_booking_context served a
\* date query
C14_Witness ==
    /\ call.op = "context"
    /\ call.ensured = "failed"
    /\ call.index_calls = 1
    /\ call.query = Query(Date(2025, 6, 10), "", NoMD, NoWD, {})
    /\ booking_meta = SetMeta(call.csv_path, 0, EMBED_MODEL)
    /\ context = Context(FALSE, <<>>)

\* the request for the query embedding failed while find_relevant_rows
\* ranked indexed rows
C14_QueryErrorReached ==
    /\ call.op = "find"
    /\ call.found.path = "error"
    /\ call.found.calls = 1
    /\ RowCount(booking_vectors, call.csv_path) > 0

\* the lines of a kind in the text returned to the call in flight
LinesOf(kind) ==
    LET OfKind(line) == line.kind = kind
    IN  SelectSeq(context.lines, OfKind)

\* a line of a kind is directly followed by a line of another kind
FollowedBy(kind, next) ==
    \E i \in 1..(Len(context.lines) - 1) :
        context.lines[i].kind = kind /\ context.lines[i + 1].kind = next

\* C15: the room-number line of the text lists the first 4 of the summary's
\* sorted room numbers and no more; with n > 4 room numbers it carries
\* "(and n-4 more)" and is followed by the instruction to offer the full
\* list, with n <= 4 it carries no suffix and no instruction follows.
C15_RoomNumberPreview ==
    (call.op = "context" /\ call.found.has_summary)
        => LET room_numbers == call.found.summary.room_numbers
               n == Len(room_numbers)
           IN  /\ Len(LinesOf("room_numbers")) <= 1
               /\ \A i \in 1..Len(LinesOf("room_numbers")) :
                     LET line == LinesOf("room_numbers")[i]
                     IN  /\ Len(line.items) <= 4
                         /\ line.items = SubSeq(room_numbers, 1, Min(4, n))
                         /\ n > 4 => /\ line.n = n - 4
                                     /\ FollowedBy("room_numbers", "ask_full_list")
                         /\ n <= 4 => /\ line.n = 0
                                      /\ LinesOf("ask_full_list") = <<>>
               /\ LinesOf("room_numbers") = <<>> => LinesOf("ask_full_list") = <<>>

\* the text lists four of the five room numbers of a date and says one more
C15_Witness ==
    /\ call.op = "context"
    /\ Len(call.found.summary.room_numbers) = 5
    /\ LinesOf("room_numbers") = << Line("room_numbers", <<"1", "5", "7", "12">>, 1) >>
    /\ FollowedBy("room_numbers", "ask_full_list")

\* C16: when the summary has summary_complete = false, the text says that
\* retrieval is partial and has no count line, no total line and no verbatim
\* room-number list; when room numbers were asked for it says that the full
\* list is unavailable.
C16_PartialSummaryAssertsNoCounts ==
    (call.op = "context" /\ call.found.has_summary /\ ~call.found.summary.summary_complete)
        => /\ Len(LinesOf("partial")) = 1
           /\ LinesOf("counts_header") = <<>>
           /\ LinesOf("count") = <<>>
           /\ LinesOf("total") = <<>>
           /\ LinesOf("room_numbers") = <<>>
           /\ _wants_room_numbers(call.query) => Len(LinesOf("room_numbers_unavailable")) = 1

\* the ranking path answered "which room ... queen" with rows, and the text
\* says that the list of room numbers is unavailable
C16_Witness ==
    /\ call.op = "context"
    /\ call.found.path = "semantic"
    /\ call.found.rows # <<>>
    /\ call.query = Query(NoDate, "", NoMD, NoWD, {"which", "room", "queen"})
    /\ FollowedBy("partial", "room_numbers_unavailable")

\* the call in flight searched the index by one of the three paths
Ranked ==
    /\ Answering
    /\ call.found.path \in {"exact_date", "month_day", "semantic"}

\* the candidate rows of the path the call took, before any filter
PathCandidates ==
    IF call.found.path = "exact_date" THEN OnDate(CallDate.date)
    ELSE IF call.found.path = "month_day" THEN OnMonthAndDay(CallDate.date)
    ELSE RankingCandidates

\* the rows of a sequence, as a set
RowSet(rows) == {rows[i] : i \in 1..Len(rows)}

DateRows ==
    IF OnDate(CallDate.date) # <<>> THEN OnDate(CallDate.date)
    ELSE OnMonthAndDay(CallDate.date)

\* the call found rows matching its date, and the filters let none of them pass
DateMatchFilteredAway ==
    /\ Answering
    /\ call.found.path \notin {"no_key", "raised"}
    /\ DateMatched
    /\ Passing(DateRows) = <<>>

\* C18: when rows match the date of the query and the availability and
\* room-type filters let none of them pass, the search returns no rows with a
\* complete summary of total 0; it relaxes no filter and goes on neither to
\* the day/month retry nor to the ranking.
C18_NoRelaxationOfFilters ==
    DateMatchFilteredAway
        => /\ call.found.rows = <<>>
           /\ call.found.has_summary
           /\ call.found.summary.total = 0
           /\ call.found.summary.summary_complete
           /\ call.found.path = (IF OnDate(CallDate.date) # <<>> THEN "exact_date" ELSE "month_day")
           /\ call.found.calls = 0
           /\ call.op = "context"
                 => /\ Len(LinesOf("no_match")) = 1
                    /\ LinesOf("sample_row") = <<>>

\* "june 10 ... twin available" met a date whose only twin room is occupied
C18_Witness ==
    /\ DateMatchFilteredAway
    /\ call.op = "context"
    /\ call.availability_only
    /\ CallTypeFilter # ""
    /\ Len(DateRows) = 2
    /\ FollowedBy("status_filter", "no_match")

\* the query of the call names an impossible date in the pattern the resolver
\* takes first: in the ISO form, or in the day and month-name form when the
\* text has no ISO date and no relative term
ImpossibleDate ==
    /\ call.op = "resolve"
    /\ \/ /\ call.query.iso # NoDate
          /\ call.query.iso.y \in 2000..2099
          /\ ~ValidDate(call.query.iso.y, call.query.iso.m, call.query.iso.d)
       \/ /\ call.query.iso = NoDate
          /\ call.query.rel = ""
          /\ call.query.md # NoMD
          /\ ~ValidDate(IF call.query.md.year # 0 THEN call.query.md.year ELSE today.y,
                        MonthNumber(call.query.md.month), call.query.md.day)

\* C19: for a text whose first matching pattern names an impossible date, in
\* the ISO form or in the day and month-name form, the resolver returns
\* (none, false).
C19_ImpossibleDateGivesNoneFalse ==
    ImpossibleDate => resolved = Resolved(NoDate, FALSE)

\* the resolver returns no date for every impossible date
C19_ImpossibleDateGivesNoDate ==
    ImpossibleDate => resolved.date = NoDate

\* the text of the call is "next <weekday>" and nothing the resolver takes
\* before it
NextWeekday ==
    /\ call.op = "resolve"
    /\ call.query.iso = NoDate
    /\ call.query.rel = ""
    /\ call.query.md = NoMD
    /\ call.query.wd # NoWD
    /\ call.query.wd.qualifier = "next"

\* C20, as claimed: "next <weekday>" resolves to a date at least 7 days after
\* the current date, on every current weekday; is_explicit_year is false.
C20_NextWeekdayAtLeastAWeekAhead ==
    NextWeekday
        => /\ \E n \in 7..13 : resolved.date = AddDays(today, n)
           /\ ~resolved.is_explicit_year

\* C20, amended: "next <weekday>" resolves to the first date after the
\* current date that falls on that weekday, 1 to 7 days ahead, and 7 days
\* ahead exactly when today is that weekday; is_explicit_year is false.
C20_NextWeekdayIsFirstAfterToday ==
    NextWeekday
        => /\ \E n \in 1..7 :
                 /\ resolved.date = AddDays(today, n)
                 /\ n = 7 <=> Weekday(today) = _WEEKDAYS[call.query.wd.weekday]
           /\ Weekday(resolved.date) = _WEEKDAYS[call.query.wd.weekday]
           /\ ~resolved.is_explicit_year

\* "next monday" on Monday 2025-06-09 resolved to 2025-06-16
C20_Witness ==
    /\ NextWeekday
    /\ today = Date(2025, 6, 9)
    /\ call.query.wd.weekday = "monday"
    /\ resolved = Resolved(Date(2025, 6, 16), FALSE)

\* the text of the call matches the ISO pattern
MatchesIso == _normalize_date(call.query) # NoDate

\* the patterns of the resolver that the text of the call matches
MatchedCategories ==
    (IF MatchesIso THEN {"iso"} ELSE {})
    \cup (IF RelPhrases(call.query.rel) # {} THEN {"relative"} ELSE {})
    \cup (IF call.query.md # NoMD THEN {"month_day"} ELSE {})
    \cup (IF call.query.wd # NoWD THEN {"weekday"} ELSE {})

\* the result of the ISO pattern alone
IsoResult ==
    IF ValidDate(call.query.iso.y, call.query.iso.m, call.query.iso.d)
    THEN Resolved(call.query.iso, TRUE)
    ELSE Resolved(NoDate, TRUE)

\* the result of the relative phrases alone
RelativeResult ==
    IF "day after tomorrow" \in RelPhrases(call.query.rel) THEN Resolved(AddDays(today, 2), FALSE)
    ELSE IF "tomorrow" \in RelPhrases(call.query.rel) THEN Resolved(AddDays(today, 1), FALSE)
    ELSE Resolved(today, FALSE)

\* the result of the day and month-name phrase alone
MonthDayResult ==
    LET year == IF call.query.md.year # 0 THEN call.query.md.year ELSE today.y
        month == MonthNumber(call.query.md.month)
    IN  IF ValidDate(year, month, call.query.md.day)
        THEN Resolved(Date(year, month, call.query.md.day), call.query.md.year # 0)
        ELSE Resolved(NoDate, FALSE)

\* the result of the weekday pattern alone
WeekdayResult ==
    Resolved(AddDays(today, DaysAhead(call.query.wd.qualifier,
                                      _WEEKDAYS[call.query.wd.weekday], today)), FALSE)

\* C21: the resolver takes the first matching pattern in the order ISO date,
\* relative phrase ("day after tomorrow" before "tomorrow" before "today"),
\* day and month-name phrase, weekday; its result is the result of that
\* pattern alone, also when that pattern names no calendar date.
C21_FirstMatchingPatternWins ==
    call.op = "resolve"
        => resolved =
             IF "iso" \in MatchedCategories THEN IsoResult
             ELSE IF "relative" \in MatchedCategories THEN RelativeResult
             ELSE IF "month_day" \in MatchedCategories THEN MonthDayResult
             ELSE IF "weekday" \in MatchedCategories THEN WeekdayResult
             ELSE Resolved(NoDate, FALSE)

\* "31 june friday" resolved to no date, the weekday left untried
C21_Witness ==
    /\ call.op = "resolve"
    /\ MatchedCategories = {"month_day", "weekday"}
    /\ call.query.md = MonthDay(31, "june", 0)
    /\ resolved = Resolved(NoDate, FALSE)

\* a text with an impossible ISO date and every other pattern resolved to
\* (none, true)
C21_InvalidIsoReached ==
    /\ call.op = "resolve"
    /\ MatchedCategories = {"iso", "relative", "month_day", "weekday"}
    /\ resolved = Resolved(NoDate, TRUE)

\* "today or tomorrow" resolved to tomorrow
C21_TomorrowBeforeTodayReached ==
    /\ call.op = "resolve"
    /\ RelPhrases(call.query.rel) = {"today", "tomorrow"}
    /\ resolved = Resolved(AddDays(today, 1), FALSE)

\* the indexed rows the search of the call matched, before the filters: the
\* rows of the resolved date, else of its month and day, else the rows the
\* ranking path ranks
MatchedSet ==
    IF call.found.path = "exact_date" THEN OnDate(CallDate.date)
    ELSE IF call.found.path = "month_day" THEN OnMonthAndDay(CallDate.date)
    ELSE RankingCandidates

\* the matched rows that pass the filters of the call
FilteredMatchedSet == Passing(MatchedSet)

\* the room numbers of the filtered matched rows, blanks left out
MatchedRoomNumbers ==
    {FilteredMatchedSet[i].room_number : i \in 1..Len(FilteredMatchedSet)} \ {""}

RECURSIVE SumOfCounts(_)
\* the sum of the values of a room-type count table
SumOfCounts(counts) ==
    IF DOMAIN counts = {} THEN 0
    ELSE LET t == CHOOSE x \in DOMAIN counts : TRUE
         IN  counts[t] + SumOfCounts([u \in DOMAIN counts \ {t} |-> counts[u]])

\* C22: a returned summary is aggregated over the full filtered matched set:
\* total is the number of matched rows passing the filters before the cut to
\* the limit and the sum of the room-type counts (blank types under
\* "Unknown"), and room_numbers holds each non-blank room number of those
\* rows once, digits first by value, then the others by text.
C22_SummaryOverFilteredMatchedSet ==
    (call.op = "find" /\ call.found.has_summary)
        => LET summary == call.found.summary
           IN  /\ summary.total = Len(FilteredMatchedSet)
               /\ summary.total = SumOfCounts(summary.room_type_counts)
               /\ \A t \in DOMAIN summary.room_type_counts :
                     summary.room_type_counts[t] =
                        Cardinality({i \in 1..Len(FilteredMatchedSet) :
                            IF t = "Unknown" THEN FilteredMatchedSet[i].room_type = ""
                            ELSE FilteredMatchedSet[i].room_type = t})
               /\ Len(summary.room_numbers) = Cardinality(MatchedRoomNumbers)
               /\ {summary.room_numbers[i] : i \in 1..Len(summary.room_numbers)}
                     = MatchedRoomNumbers
               /\ \A i, j \in 1..Len(summary.room_numbers) :
                     i < j => NumericThenTextLess(summary.room_numbers[i],
                                                  summary.room_numbers[j])

\* a date search cut to one row whose summary counts four rows, two of them
\* of blank room type, with room 5 of two rows listed once
C22_Witness ==
    /\ call.op = "find"
    /\ call.found.has_summary
    /\ call.found.path = "exact_date"
    /\ Len(call.found.rows) = 1
    /\ call.found.summary.total = 4
    /\ call.found.summary.room_type_counts = [t \in {"Queen", "Twin", "Unknown"} |->
                                                 IF t = "Unknown" THEN 2 ELSE 1]
    /\ call.found.summary.room_numbers = <<"5", "12">>

\* the keys of the entries of a cache
CacheKeys(c) == {c[i].key : i \in 1..Len(c)}

\* the key of the query-embedding call of the search in flight
CallKey == CacheKey(EMBED_MODEL, call.query)

\* a step in which a search that reaches the ranking path is served
RankingStep ==
    /\ call.op = "none"
    /\ call'.op = "find"
    /\ call'.found.path \in {"semantic", "error"}

\* C23: the query-embedding cache is keyed by (model id, query text) and
\* never holds more than 128 entries; a search whose key is cached makes no
\* embedding request; a search whose key is not cached makes one, whose
\* result is cached when it succeeds and not when it fails, so that the next
\* search of that text asks the service again.
C23_BoundedQueryCache ==
    [][ RankingStep =>
          LET key == CacheKey(EMBED_MODEL, call'.query)
          IN  /\ Len(cache') <= maxsize
              /\ Cardinality(CacheKeys(cache')) = Len(cache')
              /\ key \in CacheKeys(cache)
                    => /\ call'.found.calls = 0
                       /\ call'.found.path = "semantic"
                       /\ CacheKeys(cache') = CacheKeys(cache)
              /\ key \notin CacheKeys(cache) => call'.found.calls = 1
              /\ (key \notin CacheKeys(cache) /\ call'.found.path = "semantic")
                    => key \in CacheKeys(cache')
              /\ call'.found.path = "error"
                    => /\ cache' = cache
                       /\ key \notin CacheKeys(cache') ]_vars

\* the cache is full, the entry of the first text was dropped for a later
\* one, and a search of the first text asked the service again
C23_Witness ==
    /\ call.op = "find"
    /\ call.query = CacheQuery(1)
    /\ call.found.path = "semantic"
    /\ call.found.calls = 1
    /\ Len(cache) = maxsize
    /\ CacheKey(EMBED_MODEL, CacheQuery(2)) \notin CacheKeys(cache)
    /\ cache[Len(cache)].key = CallKey

\* a search answered from the cache, with no embedding request
C23_HitReached ==
    /\ call.op = "find"
    /\ call.found.path = "semantic"
    /\ call.found.calls = 0
    /\ CallKey \in CacheKeys(cache)

\* a search whose embedding request failed left no entry
C23_FailureReached ==
    /\ call.op = "find"
    /\ call.found.path = "error"
    /\ call.found.calls = 1
    /\ CallKey \notin CacheKeys(cache)

\* a search of the call answered by the ranking path
RankedCall ==
    /\ call.op = "find"
    /\ call.found.path = "semantic"

\* the position of a row in the index of the call's path
IndexPosition(row) ==
    CHOOSE i \in 1..Len(IndexedRows(call.csv_path)) : IndexedRows(call.csv_path)[i] = row

\* the query embedding the ranking of the call used: the entry the call left
\* in the cache
CallEmbedding == cache[CachePos(cache, CallKey)].embedding

\* the cosine similarity of the stored embedding of a row to the query
\* embedding of the call
SimilarityOf(row) ==
    LET Mine(v) == v.csv_path = call.csv_path
        mine == SelectSeq(booking_vectors, Mine)
    IN  _cosine_similarity(CallEmbedding, mine[IndexPosition(row)].embedding)

\* C24: the rows of the ranking path come in descending cosine similarity,
\* and rows of equal similarity in the order they have in the index.
C24_DescendingSimilarityStableTies ==
    RankedCall
        => \A i, j \in 1..Len(call.found.rows) :
              i < j =>
                 /\ ~ScoreLess(SimilarityOf(call.found.rows[i]), SimilarityOf(call.found.rows[j]))
                 /\ (~ScoreLess(SimilarityOf(call.found.rows[j]), SimilarityOf(call.found.rows[i]))
                       => IndexPosition(call.found.rows[i]) < IndexPosition(call.found.rows[j]))

\* five ranked rows: a later row of the index first, with the greatest
\* similarity, then two rows of equal similarity in index order
C24_Witness ==
    /\ RankedCall
    /\ Len(call.found.rows) = 5
    /\ IndexPosition(call.found.rows[1]) > IndexPosition(call.found.rows[2])
    /\ ScoreLess(SimilarityOf(call.found.rows[2]), SimilarityOf(call.found.rows[1]))
    /\ SimilarityOf(call.found.rows[2]) = SimilarityOf(call.found.rows[3])
    /\ IndexPosition(call.found.rows[2]) < IndexPosition(call.found.rows[3])

\* what the search of the call returns from the store as it is, with an
\* empty cache, when the embedding service answers a query request with
\* query_answer
AnswerUnder(query_answer) ==
    find_relevant_rows(call.query, call.csv_path, call.max_rows, TRUE, call.availability_only,
                       api_key, booking_vectors, today, EMBED_MODEL, <<>>,
                       query_answer # ServiceError, query_answer)

\* C25: given a current index, a search whose query resolves to a date that
\* some indexed row matches, exactly or (year not explicit) by month and day,
\* makes no query-embedding request and returns the same rows and summary
\* whether the embedding service answers or fails.
C25_DatePathsNeedNoEmbedding ==
    (call.op = "find" /\ call.ensured = "current" /\ DateMatched)
        => /\ call.found.path \in {"exact_date", "month_day"}
           /\ call.found.calls = 0
           /\ cache = <<>>
           /\ \A query_answer \in QueryAnswers : call.found = AnswerUnder(query_answer)

\* a search answered by the month and day of its date, with rows returned and
\* no embedding request
C25_Witness ==
    /\ call.op = "find"
    /\ call.ensured = "current"
    /\ DateMatched
    /\ call.found.path = "month_day"
    /\ call.found.rows # <<>>
    /\ call.found.calls = 0

\* a step in which an ensure_index or find_relevant_rows call is served
IndexCheckStep == call.op = "none" /\ call'.op \in {"ensure", "find"}

\* the store holds indexed rows of the path of the call being served, and the
\* file of the path is gone or holds no data row
LeftoverRows ==
    /\ RowCount(booking_vectors, call'.csv_path) > 0
    /\ \/ ~files[call'.csv_path].exists
       \/ files[call'.csv_path].rows = <<>>

\* the call being served left the store and the metadata as they were and, if
\* it is a search, answered from the rows stored for its path
AnsweredFromLeftoverRows ==
    /\ booking_vectors' = booking_vectors
    /\ booking_meta' = booking_meta
    /\ call'.ensured \in {"no_file", "no_rows", "current"}
    /\ call'.index_calls = 0
    /\ call'.op = "find"
          => LET stored == RowsOf(StoredRows(booking_vectors, call'.csv_path))
                 room_type_filter == _detect_room_type(call'.query, stored)
                 OfType(row) ==
                     room_type_filter # ""
                        => _normalize_room_type(row.room_type)
                              = _normalize_room_type(room_type_filter)
                 dated == {row \in RowSet(stored) :
                             _parse_date_str(row.date)
                                = _resolve_query_date(call'.query, today).date}
             IN  /\ call'.found.path \in {"exact_date", "semantic", "error"}
                 /\ RowSet(call'.found.rows) \subseteq RowSet(stored)
                 /\ call'.found.path = "exact_date" <=> dated # {}
                 /\ call'.found.path = "exact_date"
                       => RowSet(call'.found.rows) = {row \in dated : OfType(row)}
                 /\ call'.found.path = "semantic"
                       => RowSet(call'.found.rows) = {row \in RowSet(stored) : OfType(row)}

\* C26, as claimed: when the store holds indexed rows of a path whose file
\* was removed or whose new snapshot has no data row, ensure_index leaves the
\* rows and the metadata as they are and find_relevant_rows answers from the
\* stored rows, whatever the store.
C26_LeftoverRowsKeepAnswering ==
    [][(IndexCheckStep /\ LeftoverRows) => AnsweredFromLeftoverRows]_vars

\* C26, amended: the same, for a store whose row table has the current
\* columns; a row table of a prior version is dropped by the index check when
\* the file exists and makes the search raise when the file is gone.
C26_LeftoverRowsKeepAnsweringInCurrentTable ==
    [][(IndexCheckStep /\ LeftoverRows /\ schema = "current")
          => AnsweredFromLeftoverRows]_vars

\* a date search returned a stored row of a path whose file is gone or empty
C26_Witness ==
    /\ call.op = "find"
    /\ call.found.path = "exact_date"
    /\ call.found.rows # <<>>
    /\ call.ensured \in {"no_file", "no_rows"}
    /\ ~files[call.csv_path].exists \/ files[call.csv_path].rows = <<>>
    /\ RowCount(booking_vectors, call.csv_path) > 0

\* an ensure_index call for a path whose new snapshot has no data row
\* returned with rows of the path in the store
C26_EmptySnapshotReached ==
    /\ call.op = "ensure"
    /\ call.ensured = "no_rows"
    /\ files[call.csv_path].exists
    /\ RowCount(booking_vectors, call.csv_path) > 0

\* a step from an ensure_index call for one path to the call for the other
AlternateStep ==
    /\ call.op = "ensure"
    /\ call'.op = "ensure"
    /\ call.csv_path # call'.csv_path

\* the call being served found another path in the metadata and went into a
\* full rebuild, with an embedding request
RebuildsForOtherStoredPath ==
    /\ booking_meta.csv_path # call'.csv_path
    /\ call'.ensured \in {"rebuilt", "failed"}
    /\ call'.index_calls >= 1
    /\ call'.ensured = "rebuilt"
          => booking_meta' = SetMeta(call'.csv_path, files[call'.csv_path].mtime, EMBED_MODEL)

\* C27, as claimed: with ensure_index called in turn for two unchanged
\* datasets with data rows in one store, every call after the first finds
\* the other path in the metadata and performs a full rebuild with embedding
\* requests.
C27_AlternatingPathsAlwaysRebuild ==
    [][AlternateStep => RebuildsForOtherStoredPath]_vars

\* C27, amended: the metadata is one (path, modification time, model) triple
\* for the whole store, set by the last rebuild that succeeded; a call that
\* follows a call for the other path whose rebuild succeeded finds that
\* other path stored and goes into a full rebuild with an embedding request.
C27_AlternatingPathsRebuildAfterSuccess ==
    [][(AlternateStep /\ call.ensured = "rebuilt")
          => /\ booking_meta.csv_path = call.csv_path
             /\ RebuildsForOtherStoredPath]_vars

\* the index of a path was rebuilt in a store that holds the rows of the
\* other path, built from its file as it is by the rebuild before
C27_Witness ==
    /\ call.op = "ensure"
    /\ call.ensured = "rebuilt"
    /\ call.index_calls = 1
    /\ booking_vectors # <<>>
    /\ booking_vectors[1].csv_path # call.csv_path
    /\ booking_vectors[1].built_from = files[booking_vectors[1].csv_path].mtime
    /\ schema = "current"
    /\ \A p \in Paths : RowCount(booking_vectors, p) = Len(files[p].rows)

\* after a failed rebuild for the other path, a call found its own path
\* stored and returned without a rebuild
C27_NoRebuildAfterFailureReached ==
    /\ call.op = "ensure"
    /\ call.ensured = "current"
    /\ RowCount(booking_vectors, call.csv_path) > 0
    /\ \E p \in Paths \ {call.csv_path} : RowCount(booking_vectors, p) = 0

\* the call in flight was answered by the ranking path
AnsweredByRanking ==
    /\ call.op \in {"find", "context"}
    /\ call.found.path = "semantic"

\* C28: a summary of the ranking path carries no date label, also when the
\* query resolved to a date that no row matched; the rows returned then are
\* ranked rows of other dates, and the text build_booking_context makes of
\* them has no "Date:" line.
C28_RankingSummaryHasNoDateLabel ==
    AnsweredByRanking
        => /\ call.found.has_summary
           /\ call.found.summary.date_label = ""
           /\ CallDate.date # NoDate
                 => \A i \in 1..Len(call.found.rows) :
                       _parse_date_str(call.found.rows[i].date) # CallDate.date
           /\ call.op = "context"
                 => /\ ~context.raised
                    /\ context.lines # <<>>
                    /\ LinesOf("date") = <<>>

\* build_booking_context for "11 june ... available", a date no row has:
\* the text gives ranked rows of other dates and no "Date:" line
C28_Witness ==
    /\ AnsweredByRanking
    /\ call.op = "context"
    /\ CallDate = Resolved(Date(today.y, 6, 11), FALSE)
    /\ call.found.rows # <<>>
    /\ LinesOf("sample_row") # <<>>
    /\ LinesOf("date") = <<>>
    /\ LinesOf("partial") # <<>>

(***************************************************************************)
(* The telephony routes (app/routes/voice.py, app/assistant.py and         *)
(* app/call_state.py): one long-running process whose requests are handled *)
(* one at a time, for two calls whose requests arrive in any order.        *)
(***************************************************************************)
\* the phrases of _END_CALL_PHRASES that are one word long; the utterances
\* below hold none of the longer ones
_END_CALL_PHRASES == {"goodbye", "bye"}

\* the phrase of _REPEAT_PHRASES the utterances below can hold
_REPEAT_PHRASES == {<<"say", "again">>}

AVAILABILITY_KEYWORDS ==
    {"available", "availability", "book", "booking", "check", "checkin", "checkout",
     "date", "night", "occupancy", "occupied", "reserve", "reservation", "room",
     "rooms", "stay", "today", "tomorrow", "tonight", "next", "vacant", "vacancy",
     "monday", "tuesday", "wednesday", "thursday", "friday", "saturday", "sunday",
     "jan", "january", "feb", "february", "mar", "march", "apr", "april", "may",
     "jun", "june", "jul", "july", "aug", "august", "sep", "sept", "september",
     "oct", "october", "nov", "november", "dec", "december"}

\* DATE_RE.search(text) is not None
DATE_RE(q) == q.iso # NoDate /\ q.iso.y \in 2000..2099

BOOKING_CSV_PATH == "a.csv"

BOOKING_TOP_K == 10

should_end_call(user_text) ==
    /\ ~IsBlank(user_text)
    /\ user_text.words \cap _END_CALL_PHRASES # {}

should_repeat(user_text) ==
    /\ ~IsBlank(user_text)
    /\ \E phrase \in _REPEAT_PHRASES : {phrase[1], phrase[2]} \subseteq user_text.words

should_use_booking_context(user_text) ==
    /\ ~IsBlank(user_text)
    /\ \/ QueryTextTokens(user_text) \cap AVAILABILITY_KEYWORDS # {}
       \/ DATE_RE(user_text)

\* what the store holds after a request has called ensure_call_context
CallContext(meta_after, messages_after, changes) ==
    [app_meta |-> meta_after, messages |-> messages_after, changes |-> changes]

\* ensure_call_context that never clears the transcript
ensure_call_context_keepsTranscript(call_sid) ==
    IF call_sid = NoSid
    THEN CallContext(app_meta, messages, history.changes)
    ELSE IF app_meta.call_sid # call_sid
    THEN CallContext([app_meta EXCEPT !.call_sid = call_sid], messages,
                     history.changes + 1)
    ELSE CallContext(app_meta, messages, history.changes)

\* ensure_call_context(call_sid): nothing for a request without a CallSid;
\* reset_conversation and set_current_call_sid when the stored identifier is
\* another one
ensure_call_context(call_sid) ==
    IF call_sid = NoSid
    THEN CallContext(app_meta, messages, history.changes)
    ELSE IF app_meta.call_sid # call_sid
    THEN CallContext([app_meta EXCEPT !.call_sid = call_sid], <<>>,
                     history.changes + 1)
    ELSE CallContext(app_meta, messages, history.changes)

\* what generate_reply leaves: the transcript, the booking store and the
\* query cache of the process, and what it returns
Reply(messages_after, searched, said) ==
    [messages |-> messages_after, schema |-> searched.schema,
     booking_vectors |-> searched.ensured.vectors,
     booking_meta |-> searched.ensured.meta,
     cache |-> searched.found.cache, said |-> said]

\* the booking store and the cache as they are
NotSearched ==
    [schema |-> schema, ensured |-> Ensured(booking_vectors, booking_meta, "none", 0),
     found |-> Found(<<>>, NoSummary, FALSE, "none", 0, cache)]

\* generate_reply(user_text, save_user) on the transcript saved: the fixed
\* sentence without a credential; else the user message saved, the booking
\* context built for an utterance about availability, the chat completion
\* asked for (completion is its answer: "error", "" or "reply") and its
\* reply saved when not empty; a database error or a service error ends it
\* with the apology
generate_reply(user_text, save_user, saved, epoch, completion, index_answer, query_answer) ==
    IF ~api_key
    THEN Reply(saved, NotSearched, "not_configured")
    ELSE LET with_user == IF save_user /\ ~IsBlank(user_text)
                          THEN Append(saved, Message("user", user_text, epoch))
                          ELSE saved
             wants_room_numbers == _wants_room_numbers(user_text)
             availability_only == _wants_availability(user_text) \/ wants_room_numbers
             searched == IF should_use_booking_context(user_text)
                         THEN Search(cache, user_text, BOOKING_CSV_PATH, BOOKING_TOP_K,
                                     availability_only, index_answer, query_answer)
                         ELSE NotSearched
         IN  IF searched.found.path = "raised" \/ completion = "error"
             THEN Reply(with_user, searched, "trouble")
             ELSE IF completion = ""
             THEN Reply(with_user, searched, "no_response")
             ELSE Reply(Append(with_user, Message("assistant", user_text, epoch)),
                        searched, "reply")

\* the bounds of the telephony model: the rows of the transcript and the
\* changes of the stored call identifier
MaxMessages == 2

MaxChanges == 3

\* what a caller may say: nothing, a goodbye, a request to repeat, a
\* greeting, and two questions about availability
Utterances ==
    { BlankQuery,
      Query(NoDate, "", NoMD, NoWD, {"goodbye"}),
      Query(NoDate, "", NoMD, NoWD, {"say", "again"}),
      Query(NoDate, "", NoMD, NoWD, {"hello"}),
      Query(NoDate, "tomorrow", NoMD, NoWD, {"any", "rooms", "available"}),
      Query(Date(2025, 6, 10), "", NoMD, NoWD, {}) }

\* what the chat completion may answer
Completions == {"error", "", "reply"}

\* the state a handler leaves, within the bounds
Handled(route, call_sid, user_text, app_meta_after, reply, changes, stored) ==
    /\ Len(reply.messages) <= MaxMessages
    /\ changes <= MaxChanges
    /\ app_meta' = app_meta_after
    /\ messages' = reply.messages
    /\ request' = Request(route, call_sid, user_text, reply.said)
    /\ history' = [stored |-> stored, changes |-> changes]
    /\ schema' = reply.schema
    /\ booking_vectors' = reply.booking_vectors
    /\ booking_meta' = reply.booking_meta
    /\ cache' = reply.cache
    /\ UNCHANGED <<today, api_key, EMBED_MODEL, files, clock, call, procs, context, resolved>>

\* POST /voice: the greeting
voice(call_sid) ==
    LET ensured == ensure_call_context(call_sid)
    IN  Handled("/voice", call_sid, BlankQuery, ensured.app_meta,
                Reply(ensured.messages, NotSearched, "hello"),
                ensured.changes, history.stored)

\* POST /voice/respond with SpeechResult user_text
voice_respond(call_sid, user_text, completion, index_answer, query_answer) ==
    LET ensured == ensure_call_context(call_sid)
        epoch == ensured.changes
    IN  IF IsBlank(user_text)
        THEN Handled("/voice/respond", call_sid, user_text, ensured.app_meta,
                     Reply(ensured.messages, NotSearched, "not_caught"),
                     epoch, history.stored)
        ELSE IF should_end_call(user_text)
        THEN Handled("/voice/respond", call_sid, user_text, ensured.app_meta,
                     Reply(ensured.messages, NotSearched, "goodbye"),
                     epoch, history.stored)
        ELSE IF should_repeat(user_text)
        THEN Handled("/voice/respond", call_sid, user_text, ensured.app_meta,
                     Reply(ensured.messages, NotSearched, "last_reply"),
                     epoch, history.stored)
        ELSE IF should_use_booking_context(user_text)
        THEN Handled("/voice/respond", call_sid, user_text,
                     [ensured.app_meta EXCEPT !.pending_user_text = user_text],
                     Reply(Append(ensured.messages, Message("user", user_text, epoch)),
                           NotSearched, "checking"),
                     epoch,
                     [sid \in CallSids |->
                         IF sid = call_sid THEN user_text ELSE history.stored[sid]])
        ELSE Handled("/voice/respond", call_sid, user_text, ensured.app_meta,
                     generate_reply(user_text, TRUE, ensured.messages, epoch,
                                    completion, index_answer, query_answer),
                     epoch, history.stored)

\* POST /voice/answer: pop_pending_user_text(), then the reply to it
voice_answer(call_sid, completion, index_answer, query_answer) ==
    LET ensured == ensure_call_context(call_sid)
        epoch == ensured.changes
        user_text == ensured.app_meta.pending_user_text
        popped == [ensured.app_meta EXCEPT !.pending_user_text = BlankQuery]
        stored == [sid \in CallSids |->
                      IF sid = call_sid THEN BlankQuery ELSE history.stored[sid]]
    IN  IF IsBlank(user_text)
        THEN Handled("/voice/answer", call_sid, user_text, popped,
                     Reply(ensured.messages, NotSearched, "not_caught"), epoch, stored)
        ELSE IF should_end_call(user_text)
        THEN Handled("/voice/answer", call_sid, user_text, popped,
                     Reply(ensured.messages, NotSearched, "goodbye"), epoch, stored)
        ELSE Handled("/voice/answer", call_sid, user_text, popped,
                     generate_reply(user_text, FALSE, ensured.messages, epoch,
                                    completion, index_answer, query_answer),
                     epoch, stored)

\* the service with the dataset indexed by an earlier run
InitVoice ==
    /\ today \in Todays
    /\ api_key \in BOOLEAN
    /\ EMBED_MODEL = "text-embedding-3-small"
    /\ files = [p \in Paths |-> IF p = BOOKING_CSV_PATH THEN File(0, EarlierRows) ELSE NoFile]
    /\ clock = 0
    /\ schema = "current"
    /\ booking_vectors = EarlierIndex(BOOKING_CSV_PATH, EarlierRows)
    /\ booking_meta = SetMeta(BOOKING_CSV_PATH, 0, EMBED_MODEL)
    /\ cache = <<>>
    /\ call = NoCall
    /\ procs = [n \in Procs |-> Idle]
    /\ context = NoContext
    /\ resolved = NoResolved
    /\ InitVoiceState

\* the requests of the two calls, each with its CallSid, and the greeting route
\* asked without one; the utterances above are answered from the rows of their
\* date: the index is current and no query embedding is asked for, so that
\* only the chat completion's answer varies
NextVoice ==
    \/ \E call_sid \in CallSids \cup {NoSid} : voice(call_sid)
    \/ \E call_sid \in CallSids, user_text \in Utterances, completion \in Completions :
          voice_respond(call_sid, user_text, completion, ServiceError, ServiceError)
    \/ \E call_sid \in CallSids, completion \in Completions :
          voice_answer(call_sid, completion, ServiceError, ServiceError)

SpecVoice == InitVoice /\ [][NextVoice]_vars

(***************************************************************************)
(* C29: under any interleaving of /voice/respond and /voice/answer         *)
(* requests of different calls, the pending user text a /voice/answer of a *)
(* call consumes is the text the most recent /voice/respond of that same   *)
(* call stored, and each stored text is consumed at most once: a step of   *)
(* /voice/answer for a call consumes what that call has stored and not yet *)
(* consumed (nothing when it has stored nothing since its last answer).    *)
(***************************************************************************)
VoiceAnswerStep == request'.route = "/voice/answer"

C29_AnswerConsumesTextOfItsCall ==
    [][VoiceAnswerStep => request'.user_text = history.stored[request'.call_sid]]_vars

\* /voice/answer of a call was handed the text another call stored
C29_TextOfOtherCallReached ==
    /\ request.route = "/voice/answer"
    /\ request.call_sid = "CA1"
    /\ ~IsBlank(request.user_text)
    /\ request.user_text = history.stored["CA2"]
    /\ request.said = "reply"

(***************************************************************************)
(* C30: after ensure_call_context(sid) with a non-empty sid the stored     *)
(* call identifier is sid; the transcript is cleared if and only if the    *)
(* identifier stored before differed from sid and is left as it was        *)
(* otherwise, and for an empty sid nothing changes; hence after any        *)
(* sequence of requests every message of the transcript was saved after    *)
(* the most recent change of the call identifier.  Every request starts    *)
(* with ensure_call_context and may save messages after it: a cleared      *)
(* transcript holds only messages of the request that cleared it (none     *)
(* after the greeting route), an unchanged one still starts with the       *)
(* messages it had.                                                        *)
(***************************************************************************)
\* earlier is the beginning of later
IsPrefix(earlier, later) ==
    /\ Len(earlier) <= Len(later)
    /\ SubSeq(later, 1, Len(earlier)) = earlier

\* the rows of a transcript saved before the stored call identifier changed
\* for the last of `changes` times
SavedBeforeLastChange(transcript, changes) ==
    {i \in 1..Len(transcript) : transcript[i].epoch # changes}

C30_TranscriptFollowsCallIdentifier ==
    [][LET sid == request'.call_sid
           differed == app_meta.call_sid # sid
       IN  /\ sid # NoSid => app_meta'.call_sid = sid
           /\ sid # NoSid /\ differed
                => /\ history'.changes = history.changes + 1
                   /\ SavedBeforeLastChange(messages', history.changes + 1) = {}
                   /\ request'.route = "/voice" => messages' = <<>>
           /\ sid # NoSid /\ ~differed
                => /\ history'.changes = history.changes
                   /\ IsPrefix(messages, messages')
                   /\ request'.route = "/voice" => messages' = messages
           /\ sid = NoSid => app_meta' = app_meta /\ messages' = messages
           /\ SavedBeforeLastChange(messages', history'.changes) = {}]_vars

\* the greeting of another call has cleared the transcript that held the
\* question of the first call
C30_Witness ==
    /\ request.route = "/voice"
    /\ request.call_sid = "CA2"
    /\ app_meta.call_sid = "CA2"
    /\ history.changes = 2
    /\ ~IsBlank(history.stored["CA1"])
    /\ messages = <<>>

\* a later request of the same call found the transcript and added to it
C30_SameCallKeepsTranscriptReached ==
    /\ request.route = "/voice/answer"
    /\ request.call_sid = "CA1"
    /\ history.changes = 1
    /\ Len(messages) = 2
    /\ messages[1].role = "user"
    /\ messages[2].role = "assistant"

\* a request without a CallSid left the identifier and the transcript
C30_NoSidChangesNothingReached ==
    /\ request.call_sid = NoSid
    /\ app_meta.call_sid = "CA1"
    /\ messages # <<>>

====
